---------------------------- MODULE Spec2Model ----------------------------
(***************************************************************************)
(* Swiss-stage pairing and meeting-probability engine                      *)
(* (src/src/models.py, src/src/swiss_engine.py, src/src/worlds_2025_data.py)*)
(*                                                                         *)
(* A team is identified by its name.  The stage is the list of names plus  *)
(* one function per Team field.  Python values are rendered as follows:    *)
(*   True / False / None of a match entry : "True" / "False" / "None"      *)
(*   the record string f"{wins}-{losses}" : the tuple <<wins, losses>>     *)
(*   a float probability                  : an exact fraction <<n, d>>     *)
(*   Optional[...] results                : a record with a `present` flag *)
(***************************************************************************)
EXTENDS Integers, Sequences, FiniteSets, TLC

VARIABLES
    teams,              \* SwissStage.teams: the list of team names
    wins,               \* Team.wins, per name
    losses,             \* Team.losses, per name
    opponents_played,   \* Team.opponents_played, per name
    match_history,      \* Team.match_history, per name: sequence of <<opponent, won>>
    ret                 \* the value returned by the last call on the stage

vars == <<teams, wins, losses, opponents_played, match_history, ret>>

stageVars == <<teams, wins, losses, opponents_played, match_history>>

(***************************************************************************)
(* Bounds of the model                                                     *)
(***************************************************************************)
\* decided history entries loaded into a stage of the pairing specification
MaxEntries == 4
\* team lists up to this length are iterated in every order a set can have
MaxPermLen == 4

(***************************************************************************)
(* Names                                                                   *)
(***************************************************************************)
\* create_worlds_2025_teams: the first names of the list, in list order
WorldsTeams == <<"BLG", "TES", "AL", "HLE", "GEN", "T1">>

\* Python's string order on these names (sorted()): AL < BLG < GEN < HLE < T1 < TES
SortedNames == <<"AL", "BLG", "GEN", "HLE", "T1", "TES", "ZZZ">>

\* a name no stage of the model contains
UnknownName == "ZZZ"

NameRank(n) == CHOOSE i \in 1..Len(SortedNames) : SortedNames[i] = n

\* tuple(sorted([x, y]))
SortedPair(x, y) == IF NameRank(x) <= NameRank(y) THEN <<x, y>> ELSE <<y, x>>

(***************************************************************************)
(* Sequences and sets                                                      *)
(***************************************************************************)
Range(s) == {s[i] : i \in 1..Len(s)}

RECURSIVE Concat(_)
Concat(ss) ==
    IF ss = <<>> THEN <<>> ELSE Head(ss) \o Concat(Tail(ss))

Reverse(s) == [i \in 1..Len(s) |-> s[Len(s) + 1 - i]]

\* the elements of list `s` that are in `S`, in the order of `s`
Filter(s, S) == SelectSeq(s, LAMBDA x : x \in S)

ListOrders(s) ==
    {p \in [1..Len(s) -> Range(s)] : \A i, j \in 1..Len(s) : i # j => p[i] # p[j]}

Rotations(s) ==
    {[i \in 1..Len(s) |-> s[((i + k - 1) % Len(s)) + 1]] : k \in 0..(Len(s) - 1)}

(***************************************************************************)
(* The stage as a value (what copy.deepcopy copies)                        *)
(***************************************************************************)
Stage ==
    [teams |-> teams, wins |-> wins, losses |-> losses,
     played |-> opponents_played, hist |-> match_history]

\* Team.record
Record(st, t) == <<st.wins[t], st.losses[t]>>

\* is_qualified with the threshold one win too high
IsQualifiedLate(st, t) == st.wins[t] >= 4

\* Team.is_qualified
IsQualified(st, t) == st.wins[t] >= 3

\* Team.is_eliminated
IsEliminated(st, t) == st.losses[t] >= 3

\* Team.is_active
IsActive(st, t) == ~IsQualified(st, t) /\ ~IsEliminated(st, t)

\* can_play_against without the look into the played-set
CanPlayAgainstAnyOther(st, self, other) == self # other

\* Team.can_play_against: only the caller's own played-set is consulted
CanPlayAgainst(st, self, other) ==
    IF self = other THEN FALSE
    ELSE IF other \in st.played[self] THEN FALSE
    ELSE TRUE

\* SwissStage.get_team_by_name: whether a team of that name is in the list
HasTeam(st, name) == \E i \in 1..Len(st.teams) : st.teams[i] = name

\* SwissStage.get_teams_by_record: list order, active teams only
GetTeamsByRecord(st, w, l) ==
    SelectSeq(st.teams,
              LAMBDA t : st.wins[t] = w /\ st.losses[t] = l /\ IsActive(st, t))

\* a stage of teams as create_worlds_2025_teams makes them: no result yet
EmptyStage(names) ==
    [teams  |-> names,
     wins   |-> [t \in Range(names) |-> 0],
     losses |-> [t \in Range(names) |-> 0],
     played |-> [t \in Range(names) |-> {}],
     hist   |-> [t \in Range(names) |-> <<>>]]

\* add_match_result that puts the opponent of a pending match into the played-set
AddMatchResultAlwaysPlayed(st, team, opponent, won) ==
    [st EXCEPT
        !.played[team] = @ \cup {opponent},
        !.hist[team]   = Append(@, <<opponent, won>>),
        !.wins[team]   = IF won = "True" THEN @ + 1 ELSE @,
        !.losses[team] = IF won = "False" THEN @ + 1 ELSE @]

\* Team.add_match_result on team `team` of the stage
AddMatchResult(st, team, opponent, won) ==
    [st EXCEPT
        !.played[team] = IF won # "None" THEN @ \cup {opponent} ELSE @,
        !.hist[team]   = Append(@, <<opponent, won>>),
        !.wins[team]   = IF won = "True" THEN @ + 1 ELSE @,
        !.losses[team] = IF won = "False" THEN @ + 1 ELSE @]

(***************************************************************************)
(* load_current_swiss_stage: teams are created empty, then each team named *)
(* in the results table gets its wins and losses from the table and its    *)
(* history entry by entry; only a decided entry enters the played-set.     *)
(* A table maps a name to [wins, losses, hist].                            *)
(***************************************************************************)
LoadedPlayed(hist) == {hist[i][1] : i \in {j \in 1..Len(hist) : hist[j][2] # "None"}}

LoadStage(names, table) ==
    [teams  |-> names,
     wins   |-> [t \in Range(names) |-> table[t].wins],
     losses |-> [t \in Range(names) |-> table[t].losses],
     played |-> [t \in Range(names) |-> LoadedPlayed(table[t].hist)],
     hist   |-> [t \in Range(names) |-> table[t].hist]]

(***************************************************************************)
(* SwissDrawEngine: pairing generation                                     *)
(***************************************************************************)
\* The order in which Python iterates a set of teams is the order of their
\* hashes, which differs from process to process: `order` is a permutation
\* of the names and a set is iterated in the order `order` lists it.
SetIter(order, S) == Filter(order, S)

\* the orders considered for a list of names: every permutation of a short
\* list, the list and its reverse for a longer one
HashOrders(names) ==
    IF Len(names) <= MaxPermLen THEN ListOrders(names)
    ELSE {names, Reverse(names)}

\* is_valid_pairing with every remaining team demanding two possible partners
IsValidPairingStrict(st, remaining) ==
    IF remaining = {} THEN TRUE
    ELSE \A team \in remaining :
            Cardinality({other \in remaining :
                            team # other /\ CanPlayAgainst(st, team, other)}) >= 2

\* is_valid_pairing: false when some remaining team has no possible partner
IsValidPairing(st, remaining) ==
    IF remaining = {} THEN TRUE
    ELSE LET graph == [team \in remaining |->
                          {other \in remaining :
                              team # other /\ CanPlayAgainst(st, team, other)}]
         IN  \A team \in remaining : graph[team] # {}

\* backtrack trying every remaining team as the pivot
RECURSIVE BacktrackEveryPivot(_, _, _, _)
BacktrackEveryPivot(st, order, current_pairs, remaining) ==
    IF remaining = {} THEN <<current_pairs>>
    ELSE LET its == SetIter(order, remaining)
             Try(team, other) ==
                 IF other # team /\ CanPlayAgainst(st, team, other)
                    /\ IsValidPairing(st, remaining \ {team, other})
                 THEN BacktrackEveryPivot(st, order,
                                          Append(current_pairs, <<team, other>>),
                                          remaining \ {team, other})
                 ELSE <<>>
         IN  Concat([i \in 1..Len(its) |->
                        Concat([j \in 1..Len(its) |-> Try(its[i], its[j])])])

\* backtrack recording a solution as soon as at most one team remains
RECURSIVE BacktrackLeftover(_, _, _, _)
BacktrackLeftover(st, order, current_pairs, remaining) ==
    IF Cardinality(remaining) <= 1 THEN <<current_pairs>>
    ELSE LET its  == SetIter(order, remaining)
             team == its[1]
             Try(other) ==
                 IF other # team /\ CanPlayAgainst(st, team, other)
                    /\ IsValidPairing(st, remaining \ {team, other})
                 THEN BacktrackLeftover(st, order,
                                        Append(current_pairs, <<team, other>>),
                                        remaining \ {team, other})
                 ELSE <<>>
         IN  Concat([j \in 1..Len(its) |-> Try(its[j])])

\* generate_valid_pairings.backtrack: the pairings it appends to all_pairings
RECURSIVE Backtrack(_, _, _, _)
Backtrack(st, order, current_pairs, remaining) ==
    IF remaining = {} THEN <<current_pairs>>
    ELSE LET its  == SetIter(order, remaining)
             team == its[1]
             Try(other) ==
                 IF other # team /\ CanPlayAgainst(st, team, other)
                 THEN IF IsValidPairing(st, remaining \ {team, other})
                      THEN Backtrack(st, order,
                                     Append(current_pairs, <<team, other>>),
                                     remaining \ {team, other})
                      ELSE <<>>
                 ELSE <<>>
         IN  Concat([j \in 1..Len(its) |-> Try(its[j])])

\* generate_valid_pairings
GenerateValidPairings(st, list, order) ==
    IF Len(list) = 0 THEN << <<>> >>
    ELSE Backtrack(st, order, <<>>, Range(list))

(***************************************************************************)
(* What a pairing is, independently of how it is generated                 *)
(***************************************************************************)
\* the partition a returned pairing stands for: its pairs, unordered
AsPartition(pairing) == {{pairing[i][1], pairing[i][2]} : i \in 1..Len(pairing)}

\* every partition of S into two-element sets
RECURSIVE PairPartitions(_)
PairPartitions(S) ==
    IF S = {} THEN {{}}
    ELSE LET x == CHOOSE x \in S : TRUE
         IN  UNION {{{{x, y}} \cup rest : rest \in PairPartitions(S \ {x, y})}
                    : y \in S \ {x}}

HavePlayed(st, x, y) == y \in st.played[x] \/ x \in st.played[y]

\* the partitions of S into pairs of teams neither of which has played the other
ValidPartitions(st, S) ==
    {P \in PairPartitions(S) :
        \A pr \in P : \A x, y \in pr : x # y => ~HavePlayed(st, x, y)}

SymmetricPlayed(st) ==
    \A x, y \in Range(st.teams) : (y \in st.played[x]) <=> (x \in st.played[y])

(***************************************************************************)
(* Probabilities: a float is modelled by the exact fraction <<n, d>> in    *)
(* lowest terms, d > 0                                                     *)
(***************************************************************************)
RECURSIVE GCD(_, _)
GCD(a, b) == IF b = 0 THEN a ELSE GCD(b, a % b)

Frac(n, d) == LET g == GCD(n, d) IN IF g = 0 THEN <<0, 1>> ELSE <<n \div g, d \div g>>

Zero == <<0, 1>>

One == <<1, 1>>

\* the 0.5 of win_probabilities.get(prob_key, 0.5)
Half == <<1, 2>>

FracAdd(p, q) == Frac(p[1] * q[2] + q[1] * p[2], p[2] * q[2])

FracMul(p, q) == Frac(p[1] * q[1], p[2] * q[2])

\* 1 - p
Complement(p) == Frac(p[2] - p[1], p[2])

RECURSIVE FracSum(_)
FracSum(ps) == IF ps = <<>> THEN Zero ELSE FracAdd(Head(ps), FracSum(Tail(ps)))

(***************************************************************************)
(* ProbabilityCalculator: pending matches, paths, impact matches           *)
(***************************************************************************)
\* every history entry of the stage as <<team, opponent, result>>: teams in
\* list order, each team's entries in history order
AllEntries(st) ==
    Concat([i \in 1..Len(st.teams) |->
               [j \in 1..Len(st.hist[st.teams[i]]) |->
                   <<st.teams[i], st.hist[st.teams[i]][j][1],
                     st.hist[st.teams[i]][j][2]>>]])

RECURSIVE PendingFold(_, _, _, _)
PendingFold(st, entries, processed_pairs, pending_matches) ==
    IF entries = <<>> THEN pending_matches
    ELSE LET e    == Head(entries)
             pair == SortedPair(e[1], e[2])
         IN  IF e[3] = "None" /\ pair \notin processed_pairs /\ HasTeam(st, e[2])
             THEN PendingFold(st, Tail(entries), processed_pairs \cup {pair},
                              Append(pending_matches,
                                     [team1 |-> e[1], team2 |-> e[2],
                                      team1_record |-> Record(st, e[1]),
                                      team2_record |-> Record(st, e[2])]))
             ELSE PendingFold(st, Tail(entries), processed_pairs, pending_matches)

\* _identify_pending_matches
IdentifyPendingMatches(st) == PendingFold(st, AllEntries(st), {}, <<>>)

NoPath == [found |-> FALSE]

NoPending == [present |-> FALSE]

\* the loop of _find_path_to_target_group over the history: it stops at the
\* first pending entry, whether or not that entry's opponent is in the stage
FirstPending(st, team) ==
    LET h   == st.hist[team]
        idx == {i \in 1..Len(h) : h[i][2] = "None"}
    IN  IF idx = {} THEN NoPending
        ELSE LET i == CHOOSE i \in idx : \A j \in idx : i <= j
             IN  IF HasTeam(st, h[i][1])
                 THEN [present |-> TRUE, opponent |-> h[i][1],
                       opponent_record |-> Record(st, h[i][1])]
                 ELSE NoPending

\* _find_path_to_target_group without the limit of one result
FindPathToTargetGroupFar(st, team, target_w, target_l) ==
    IF st.wins[team] = target_w /\ st.losses[team] = target_l
    THEN [found |-> TRUE, possible |-> TRUE, wins_needed |-> 0,
          losses_needed |-> 0, pending_match |-> NoPending]
    ELSE IF st.wins[team] >= 3 \/ st.losses[team] >= 3 THEN NoPath
    ELSE IF target_w >= 3 \/ target_l >= 3 THEN NoPath
    ELSE IF target_w - st.wins[team] < 0 \/ target_l - st.losses[team] < 0 THEN NoPath
    ELSE [found |-> TRUE, possible |-> TRUE, wins_needed |-> target_w - st.wins[team],
          losses_needed |-> target_l - st.losses[team],
          pending_match |-> FirstPending(st, team)]

\* _find_path_to_target_group
FindPathToTargetGroup(st, team, target_w, target_l) ==
    LET current_w     == st.wins[team]
        current_l     == st.losses[team]
        wins_needed   == target_w - current_w
        losses_needed == target_l - current_l
    IN  IF current_w = target_w /\ current_l = target_l
        THEN [found |-> TRUE, possible |-> TRUE, wins_needed |-> 0,
              losses_needed |-> 0, pending_match |-> NoPending]
        ELSE IF current_w >= 3 \/ current_l >= 3 THEN NoPath
        ELSE IF target_w >= 3 \/ target_l >= 3 THEN NoPath
        ELSE IF wins_needed < 0 \/ losses_needed < 0 THEN NoPath
        ELSE IF wins_needed + losses_needed > 1 THEN NoPath
        ELSE [found |-> TRUE, possible |-> TRUE, wins_needed |-> wins_needed,
              losses_needed |-> losses_needed,
              pending_match |-> FirstPending(st, team)]

\* _describe_path: the text is kept as its words: "already in the group", or
\* the parts "win n" and "lose n" that are joined, then the target
DescribePath(current_w, current_l, target_w, target_l) ==
    LET wins_needed   == target_w - current_w
        losses_needed == target_l - current_l
    IN  IF wins_needed = 0 /\ losses_needed = 0
        THEN [already |-> TRUE, parts |-> <<>>, target |-> <<target_w, target_l>>]
        ELSE [already |-> FALSE,
              parts   |-> (IF wins_needed > 0
                           THEN <<[word |-> "win", n |-> wins_needed]>> ELSE <<>>)
                          \o (IF losses_needed > 0
                              THEN <<[word |-> "lose", n |-> losses_needed]>> ELSE <<>>),
              target  |-> <<target_w, target_l>>]

\* needs.startswith(word)
StartsWithWord(needs, word) ==
    ~needs.already /\ Len(needs.parts) > 0 /\ needs.parts[1].word = word

\* word in needs
ContainsWord(needs, word) ==
    ~needs.already /\ \E i \in 1..Len(needs.parts) : needs.parts[i].word = word

Affects(impact_matches, match, name) ==
    \E i \in 1..Len(impact_matches) :
        impact_matches[i].match = match /\ impact_matches[i].team_affected = name

\* the body of the loop of _identify_impact_matches for one pending match
ImpactOf(st, match, target_w, target_l, impact_matches) ==
    LET team1 == match.team1
        team2 == match.team2
        a1 == IF st.wins[team1] + 1 = target_w /\ st.losses[team1] = target_l
              THEN Append(impact_matches,
                          [match |-> match, team_affected |-> team1,
                           result_needed |-> "team1_win"])
              ELSE impact_matches
        a2 == IF st.wins[team1] = target_w /\ st.losses[team1] + 1 = target_l
              THEN Append(a1, [match |-> match, team_affected |-> team1,
                               result_needed |-> "team1_lose"])
              ELSE a1
        a3 == IF st.wins[team2] + 1 = target_w /\ st.losses[team2] = target_l
                 /\ ~Affects(a2, match, team2)
              THEN Append(a2, [match |-> match, team_affected |-> team2,
                               result_needed |-> "team2_win"])
              ELSE a2
        a4 == IF st.wins[team2] = target_w /\ st.losses[team2] + 1 = target_l
                 /\ ~Affects(a3, match, team2)
              THEN Append(a3, [match |-> match, team_affected |-> team2,
                               result_needed |-> "team2_lose"])
              ELSE a3
    IN  a4

RECURSIVE ImpactFold(_, _, _, _, _, _)
ImpactFold(st, all_pending, target_w, target_l, exclude_matches, impact_matches) ==
    IF all_pending = <<>> THEN impact_matches
    ELSE LET match == Head(all_pending)
         IN  IF SortedPair(match.team1, match.team2) \in Range(exclude_matches)
                \/ ~HasTeam(st, match.team1) \/ ~HasTeam(st, match.team2)
             THEN ImpactFold(st, Tail(all_pending), target_w, target_l,
                             exclude_matches, impact_matches)
             ELSE ImpactFold(st, Tail(all_pending), target_w, target_l,
                             exclude_matches,
                             ImpactOf(st, match, target_w, target_l, impact_matches))

\* the matches of the impact entries, one per entry
RECURSIVE EveryImpactMatch(_, _)
EveryImpactMatch(impact_matches, unique_matches) ==
    IF impact_matches = <<>> THEN unique_matches
    ELSE EveryImpactMatch(Tail(impact_matches),
                          Append(unique_matches, Head(impact_matches).match))

\* the matches of the impact entries, each (team1, team2) key once, in the
\* order the keys first appear
RECURSIVE UniqueMatches(_, _)
UniqueMatches(impact_matches, unique_matches) ==
    IF impact_matches = <<>> THEN unique_matches
    ELSE LET m == Head(impact_matches).match
         IN  IF \E i \in 1..Len(unique_matches) :
                    unique_matches[i].team1 = m.team1 /\ unique_matches[i].team2 = m.team2
             THEN UniqueMatches(Tail(impact_matches), unique_matches)
             ELSE UniqueMatches(Tail(impact_matches), Append(unique_matches, m))

\* _identify_impact_matches
IdentifyImpactMatches(st, target_w, target_l, exclude_matches) ==
    UniqueMatches(ImpactFold(st, IdentifyPendingMatches(st), target_w, target_l,
                             exclude_matches, <<>>),
                  <<>>)

(***************************************************************************)
(* ProbabilityCalculator: simulated groups and the direct probability      *)
(***************************************************************************)
\* match_results[key] = value on a dict kept as a list of <<key, value>>
DictSet(d, key, value) ==
    IF \E i \in 1..Len(d) : d[i][1] = key
    THEN [i \in 1..Len(d) |-> IF d[i][1] = key THEN <<key, value>> ELSE d[i]]
    ELSE Append(d, <<key, value>>)

\* a match result that credits the winner and leaves the loser as it was
ApplyResultWinnerOnly(sim, item) ==
    IF HasTeam(sim, item[1][1]) /\ HasTeam(sim, item[1][2])
    THEN IF item[2] = "team1_win" THEN [sim EXCEPT !.wins[item[1][1]] = @ + 1]
         ELSE IF item[2] = "team2_win" THEN [sim EXCEPT !.wins[item[1][2]] = @ + 1]
         ELSE sim
    ELSE sim

\* one match result applied to the copied stage
ApplyResult(sim, item) ==
    LET t1 == item[1][1]
        t2 == item[1][2]
    IN  IF HasTeam(sim, t1) /\ HasTeam(sim, t2)
        THEN IF item[2] = "team1_win"
             THEN [sim EXCEPT !.wins[t1] = @ + 1, !.losses[t2] = @ + 1]
             ELSE IF item[2] = "team2_win"
             THEN [sim EXCEPT !.losses[t1] = @ + 1, !.wins[t2] = @ + 1]
             ELSE sim
        ELSE sim

RECURSIVE ApplyResults(_, _)
ApplyResults(sim, match_results) ==
    IF match_results = <<>> THEN sim
    ELSE ApplyResults(ApplyResult(sim, Head(match_results)), Tail(match_results))

\* the copy of the stage _simulate_group_with_results works on, results applied
SimulatedStage(st, match_results) == ApplyResults(st, match_results)

\* _simulate_group_with_results
SimulateGroupWithResults(st, target_w, target_l, match_results) ==
    GetTeamsByRecord(SimulatedStage(st, match_results), target_w, target_l)

\* the test of the counting loop matching the pair in the order asked only
IsTargetPairOrdered(pair, team1_name, team2_name) ==
    pair[1] = team1_name /\ pair[2] = team2_name

IsTargetPair(pair, team1_name, team2_name) ==
    \/ pair[1] = team1_name /\ pair[2] = team2_name
    \/ pair[1] = team2_name /\ pair[2] = team1_name

\* the counting loop: the pairings that hold the target pair
TargetPairingCount(all_pairings, team1_name, team2_name) ==
    Cardinality({i \in 1..Len(all_pairings) :
                    \E j \in 1..Len(all_pairings[i]) :
                        IsTargetPair(all_pairings[i][j], team1_name, team2_name)})

\* the dictionary _calculate_pairing_probability returns for the pairings found
PairingStats(teams_in_group, all_pairings, target_pairing_count) ==
    IF all_pairings = <<>>
    THEN [probability |-> Zero, total_pairings |-> 0,
          favorable_pairings |-> 0, teams |-> teams_in_group]
    ELSE [probability |-> Frac(target_pairing_count, Len(all_pairings)),
          total_pairings |-> Len(all_pairings),
          favorable_pairings |-> target_pairing_count, teams |-> teams_in_group]

\* _calculate_pairing_probability once the pairings are generated
PairingProbabilityOf(team1_name, team2_name, teams_in_group, all_pairings) ==
    PairingStats(teams_in_group, all_pairings,
                 TargetPairingCount(all_pairings, team1_name, team2_name))

\* _calculate_pairing_probability
CalculatePairingProbability(st, team1_name, team2_name, teams_in_group, order) ==
    IF Len(teams_in_group) < 2
    THEN [probability |-> Zero, total_pairings |-> 0, favorable_pairings |-> 0,
          teams |-> <<>>]
    ELSE PairingProbabilityOf(team1_name, team2_name, teams_in_group,
                              GenerateValidPairings(st, teams_in_group, order))

(***************************************************************************)
(* ProbabilityCalculator.calculate_cross_group_probability_interactive     *)
(***************************************************************************)
\* possible_records
PossibleRecords == << <<1, 1>>, <<2, 1>>, <<1, 2>>, <<2, 2>> >>

\* win_probabilities = None
NoProbabilities == [given |-> FALSE]

\* a win_probabilities dict: `map` is a function from sorted name pairs
Probabilities(map) == [given |-> TRUE, map |-> map]

ZeroStep(path) == path.wins_needed = 0 /\ path.losses_needed = 0

\* the test on the two paths that makes the loop over possible_records stop
BothReach(path1, path2) ==
    /\ path1.found /\ path1.possible /\ path2.found /\ path2.possible
    /\ ~(ZeroStep(path1) /\ ZeroStep(path2))

\* whether the loop over possible_records stops at `rec`
IsCommonTarget(st, team1, team2, skip_current_record, rec) ==
    /\ ~(skip_current_record /\ st.wins[team1] = rec[1] /\ st.losses[team1] = rec[2])
    /\ BothReach(FindPathToTargetGroup(st, team1, rec[1], rec[2]),
                 FindPathToTargetGroup(st, team2, rec[1], rec[2]))

\* the loop over possible_records that keeps the last record found, not the first
TargetIndexLast(st, team1, team2, skip_current_record) ==
    LET hits == {i \in 1..Len(PossibleRecords) :
                    IsCommonTarget(st, team1, team2, skip_current_record,
                                   PossibleRecords[i])}
    IN  IF hits = {} THEN 0 ELSE CHOOSE i \in hits : \A j \in hits : i >= j

\* the index in possible_records of target_record, 0 when it stays None
TargetIndex(st, team1, team2, skip_current_record) ==
    LET hits == {i \in 1..Len(PossibleRecords) :
                    IsCommonTarget(st, team1, team2, skip_current_record,
                                   PossibleRecords[i])}
    IN  IF hits = {} THEN 0 ELSE CHOOSE i \in hits : \A j \in hits : i <= j

Prerequisite(st, team, rec) ==
    [team           |-> team,
     current_record |-> Record(st, team),
     needs          |-> DescribePath(st.wins[team], st.losses[team], rec[1], rec[2]),
     pending_match  |-> FindPathToTargetGroup(st, team, rec[1], rec[2]).pending_match]

\* exclude_matches
ExcludeMatches(prerequisites) ==
    Concat([i \in 1..Len(prerequisites) |->
               IF prerequisites[i].pending_match.present
               THEN <<SortedPair(prerequisites[i].team,
                                 prerequisites[i].pending_match.opponent)>>
               ELSE <<>>])

\* prereq.get(key, 0) > 0 on a prerequisite, which has no such key
KeyPositive(prereq, key) == key \in DOMAIN prereq /\ prereq[key] > 0

\* the result given to a prerequisite match when there is no impact match:
\* decided by how the description starts ("" when none is set)
DirectOutcome(prereq) ==
    IF StartsWithWord(prereq.needs, "win") THEN "team1_win"
    ELSE IF StartsWithWord(prereq.needs, "lose") THEN "team2_win"
    ELSE ""

\* the result given to a prerequisite match inside a scenario
ScenarioOutcome(prereq) ==
    IF KeyPositive(prereq, "wins_needed") THEN "team1_win"
    ELSE IF KeyPositive(prereq, "losses_needed") THEN "team2_win"
    ELSE IF ContainsWord(prereq.needs, "win") THEN "team1_win"
    ELSE IF ContainsWord(prereq.needs, "lose") THEN "team2_win"
    ELSE ""

\* match_results after the loop over the prerequisites
RECURSIVE PrereqResults(_, _, _)
PrereqResults(prerequisites, in_scenario, match_results) ==
    IF prerequisites = <<>> THEN match_results
    ELSE LET prereq    == Head(prerequisites)
             match_key == <<prereq.team, prereq.pending_match.opponent>>
             outcome   == IF in_scenario THEN ScenarioOutcome(prereq)
                          ELSE DirectOutcome(prereq)
         IN  IF prereq.pending_match.present /\ outcome # ""
             THEN PrereqResults(Tail(prerequisites), in_scenario,
                                DictSet(match_results, match_key, outcome))
             ELSE PrereqResults(Tail(prerequisites), in_scenario, match_results)

\* itertools.product over [team1_win, team2_win] for n matches: the first
\* match varies slowest
RECURSIVE OutcomeCombos(_)
OutcomeCombos(n) ==
    IF n = 0 THEN << <<>> >>
    ELSE LET rest == OutcomeCombos(n - 1)
         IN  [i \in 1..Len(rest) |-> <<"team1_win">> \o rest[i]]
             \o [i \in 1..Len(rest) |-> <<"team2_win">> \o rest[i]]

\* the factor of scenario_prob for one impact match: the complement of the
\* supplied value is taken from 0 when the match has no entry
OutcomeProbabilityNoDefault(win_probabilities, match, outcome) ==
    LET prob_key == SortedPair(match.team1, match.team2)
    IN  IF outcome = "team1_win"
        THEN IF prob_key \in DOMAIN win_probabilities.map
             THEN win_probabilities.map[prob_key] ELSE Half
        ELSE Complement(IF prob_key \in DOMAIN win_probabilities.map
                        THEN win_probabilities.map[prob_key] ELSE Zero)

\* the factor of scenario_prob for one impact match
OutcomeProbability(win_probabilities, match, outcome) ==
    LET prob_key == SortedPair(match.team1, match.team2)
        p        == IF prob_key \in DOMAIN win_probabilities.map
                    THEN win_probabilities.map[prob_key] ELSE Half
    IN  IF outcome = "team1_win" THEN p ELSE Complement(p)

RECURSIVE ScenarioProb(_, _, _)
ScenarioProb(win_probabilities, impact_matches, outcome_combo) ==
    IF impact_matches = <<>> THEN One
    ELSE FracMul(OutcomeProbability(win_probabilities, Head(impact_matches),
                                    Head(outcome_combo)),
                 ScenarioProb(win_probabilities, Tail(impact_matches),
                              Tail(outcome_combo)))

RECURSIVE ScenarioResults(_, _, _)
ScenarioResults(impact_matches, outcome_combo, match_results) ==
    IF impact_matches = <<>> THEN match_results
    ELSE ScenarioResults(Tail(impact_matches), Tail(outcome_combo),
                         DictSet(match_results,
                                 <<Head(impact_matches).team1, Head(impact_matches).team2>>,
                                 Head(outcome_combo)))

NewTeams(teams_in_group, team1_name, team2_name) ==
    SelectSeq(teams_in_group, LAMBDA t : t \notin {team1_name, team2_name})

\* a scenario entry for the group `teams_in_group` of the simulated stage `sim`
ScenarioEntry(sim, team1_name, team2_name, teams_in_group, probability, shown, order) ==
    [probability   |-> probability,
     new_teams     |-> NewTeams(teams_in_group, team1_name, team2_name),
     pairing_stats |-> CalculatePairingProbability(sim, team1_name, team2_name,
                                                   teams_in_group, order),
     match_results |-> shown]

\* the scenario entry built from match_results
ScenarioFor(st, team1_name, team2_name, rec, match_results, probability, shown, order) ==
    ScenarioEntry(SimulatedStage(st, match_results), team1_name, team2_name,
                  SimulateGroupWithResults(st, rec[1], rec[2], match_results),
                  probability, shown, order)

\* one pass of the loop over the outcome combinations
Scenario(st, team1_name, team2_name, rec, prerequisites, impact_matches, win_probabilities, outcome_combo, order) ==
    ScenarioFor(st, team1_name, team2_name, rec,
                ScenarioResults(impact_matches, outcome_combo,
                                PrereqResults(prerequisites, TRUE, <<>>)),
                ScenarioProb(win_probabilities, impact_matches, outcome_combo),
                outcome_combo, order)

\* the only scenario when no impact match exists
OnlyScenario(st, team1_name, team2_name, rec, prerequisites, order) ==
    ScenarioFor(st, team1_name, team2_name, rec,
                PrereqResults(prerequisites, FALSE, <<>>), One, <<>>, order)

\* the scenarios of the loop over product(*impact_match_outcomes), in its order
Scenarios(st, team1_name, team2_name, rec, prerequisites, impact_matches, win_probabilities, combos, order) ==
    [i \in 1..Len(combos) |->
        Scenario(st, team1_name, team2_name, rec, prerequisites, impact_matches,
                 win_probabilities, combos[i], order)]

EmptyCrossResult ==
    [need_input |-> FALSE, prerequisites |-> <<>>, impact_matches |-> <<>>,
     scenarios |-> <<>>, weighted_probability |-> Zero, explanation |-> ""]

\* the result once prerequisites and impact matches are stored
FoundResult(prerequisites, impact_matches) ==
    [EmptyCrossResult EXCEPT !.prerequisites = prerequisites,
                             !.impact_matches = impact_matches]

\* the result of the branch without impact matches
OnlyResult(found, only) ==
    [found EXCEPT !.scenarios = <<only>>,
                  !.weighted_probability = only.pairing_stats.probability]

\* the enumerating branch adding up the pairing probabilities without weights
UnweightedResult(found, scenarios) ==
    [found EXCEPT
        !.scenarios = scenarios,
        !.weighted_probability =
            FracSum([i \in 1..Len(scenarios) |->
                        scenarios[i].pairing_stats.probability])]

\* the result of the branch that enumerates the outcome combinations
WeightedResult(found, scenarios) ==
    [found EXCEPT
        !.scenarios = scenarios,
        !.weighted_probability =
            FracSum([i \in 1..Len(scenarios) |->
                        FracMul(scenarios[i].probability,
                                scenarios[i].pairing_stats.probability)])]

\* the enumeration going ahead without win probabilities, every match at 0.5
CrossGroupGuessing(st, team1_name, team2_name, win_probabilities, rec, prerequisites, impact_matches, order) ==
    IF impact_matches = <<>>
    THEN OnlyResult(FoundResult(prerequisites, impact_matches),
                    OnlyScenario(st, team1_name, team2_name, rec, prerequisites, order))
    ELSE WeightedResult(FoundResult(prerequisites, impact_matches),
                        Scenarios(st, team1_name, team2_name, rec, prerequisites,
                                  impact_matches,
                                  IF win_probabilities.given THEN win_probabilities
                                  ELSE [given |-> TRUE, map |-> <<>>],
                                  OutcomeCombos(Len(impact_matches)), order))

\* calculate_cross_group_probability_interactive from the impact matches on
CrossGroupWith(st, team1_name, team2_name, win_probabilities, rec, prerequisites, impact_matches, order) ==
    IF ~win_probabilities.given
    THEN [FoundResult(prerequisites, impact_matches) EXCEPT !.need_input = TRUE]
    ELSE IF impact_matches = <<>>
    THEN OnlyResult(FoundResult(prerequisites, impact_matches),
                    OnlyScenario(st, team1_name, team2_name, rec, prerequisites, order))
    ELSE WeightedResult(FoundResult(prerequisites, impact_matches),
                        Scenarios(st, team1_name, team2_name, rec, prerequisites,
                                  impact_matches, win_probabilities,
                                  OutcomeCombos(Len(impact_matches)), order))

\* calculate_cross_group_probability_interactive from the prerequisites on
CrossGroupFrom(st, team1_name, team2_name, win_probabilities, rec, prerequisites, order) ==
    CrossGroupWith(st, team1_name, team2_name, win_probabilities, rec, prerequisites,
                   IdentifyImpactMatches(st, rec[1], rec[2],
                                         ExcludeMatches(prerequisites)),
                   order)

\* the return without a target record that leaves the explanation empty
CrossGroupAtSilent(st, team1_name, team2_name, win_probabilities, ti, order) ==
    IF ti = 0 THEN EmptyCrossResult
    ELSE CrossGroupFrom(st, team1_name, team2_name, win_probabilities,
                        PossibleRecords[ti],
                        <<Prerequisite(st, team1_name, PossibleRecords[ti]),
                          Prerequisite(st, team2_name, PossibleRecords[ti])>>,
                        order)

\* calculate_cross_group_probability_interactive after the loop over
\* possible_records, which left target_record at index ti
CrossGroupAt(st, team1_name, team2_name, win_probabilities, ti, order) ==
    IF ti = 0 THEN [EmptyCrossResult EXCEPT !.explanation = "no_common_group"]
    ELSE CrossGroupFrom(st, team1_name, team2_name, win_probabilities,
                        PossibleRecords[ti],
                        <<Prerequisite(st, team1_name, PossibleRecords[ti]),
                          Prerequisite(st, team2_name, PossibleRecords[ti])>>,
                        order)

\* calculate_cross_group_probability_interactive
CrossGroupInteractive(st, team1_name, team2_name, win_probabilities, skip_current_record, order) ==
    IF ~HasTeam(st, team1_name) \/ ~HasTeam(st, team2_name) THEN EmptyCrossResult
    ELSE CrossGroupAt(st, team1_name, team2_name, win_probabilities,
                      TargetIndex(st, team1_name, team2_name, skip_current_record),
                      order)

(***************************************************************************)
(* ProbabilityCalculator.calculate_matchup_probability                     *)
(***************************************************************************)
\* can_reach_record of _calculate_cross_group_paths
CanReachRecord(current_w, current_l, target_w, target_l) ==
    IF current_w > target_w \/ current_l > target_l THEN FALSE
    ELSE IF current_w = target_w /\ current_l = target_l THEN TRUE
    ELSE IF current_w >= 3 \/ current_l >= 3 THEN FALSE
    ELSE IF target_w >= 3 \/ target_l >= 3 THEN FALSE
    ELSE TRUE

\* _estimate_meetup_probability_in_group: four teams are assumed in any group
EstimateMeetupProbability(st, team1, team2) ==
    IF team2 \in st.played[team1] THEN Zero ELSE Frac(1, 4 - 1)

\* _calculate_cross_group_paths: the paths all carry the same probability, so
\* the closing sort keeps their order
CalculateCrossGroupPaths(st, team1, team2) ==
    LET Path(rec) ==
            IF /\ CanReachRecord(st.wins[team1], st.losses[team1], rec[1], rec[2])
               /\ CanReachRecord(st.wins[team2], st.losses[team2], rec[1], rec[2])
               /\ ~(Record(st, team1) = rec /\ Record(st, team2) = rec)
               /\ EstimateMeetupProbability(st, team1, team2)[1] > 0
            THEN <<[target_record |-> rec,
                    team1_needs   |-> DescribePath(st.wins[team1], st.losses[team1],
                                                   rec[1], rec[2]),
                    team2_needs   |-> DescribePath(st.wins[team2], st.losses[team2],
                                                   rec[1], rec[2]),
                    probability   |-> EstimateMeetupProbability(st, team1, team2)]>>
            ELSE <<>>
    IN  Concat([i \in 1..Len(PossibleRecords) |-> Path(PossibleRecords[i])])

NoStats == [present |-> FALSE]

NoData == [present |-> FALSE]

\* the pending test that never sees a pending entry
HasPendingNever(st, team) == FALSE

\* team.match_history and team.match_history[-1][1] is None
HasPending(st, team) ==
    st.hist[team] # <<>> /\ st.hist[team][Len(st.hist[team])][2] = "None"

\* team.match_history[-1][0]
PendingOpponent(st, team) == st.hist[team][Len(st.hist[team])][1]

\* the result dictionary as first built; `calls` lists the enumerations the
\* call has started, and `raised` is set when it raises instead of returning
BaseResult ==
    [raised |-> FALSE, probability |-> Zero, can_meet_directly |-> FALSE,
     reason |-> [kind |-> ""], explanation |-> "", paths |-> <<>>,
     same_group |-> FALSE, pairing_stats |-> NoStats,
     need_interactive |-> FALSE, interactive_data |-> NoData, calls |-> <<>>]

\* the branch for two teams of one record that are drawn against other teams;
\* interactive_result is what the scenario enumerator returned
OtherOpponentsResult(st, team1_name, team2_name, interactive_result) ==
    [BaseResult EXCEPT
        !.reason = [kind  |-> "other_opponents",
                    names |-> <<PendingOpponent(st, team1_name),
                                PendingOpponent(st, team2_name)>>],
        !.calls = <<"calculate_cross_group_probability_interactive">>,
        !.need_interactive = interactive_result.need_input,
        !.interactive_data = IF interactive_result.need_input
                             THEN [present |-> TRUE, data |-> interactive_result]
                             ELSE NoData,
        !.explanation = IF interactive_result.need_input
                        THEN "later_rounds_need_input"
                        ELSE IF interactive_result.explanation # ""
                        THEN "later_rounds_no_common_group"
                        ELSE ""]

\* the result of the direct calculation once the pairings are counted
SameGroupStats(teams_in_group, all_pairings, target_pairing_count) ==
    IF all_pairings = <<>>
    THEN [BaseResult EXCEPT !.same_group = TRUE, !.can_meet_directly = TRUE,
                            !.reason = [kind |-> "no_valid_pairing"],
                            !.explanation = "no_valid_pairing",
                            !.calls = <<"generate_valid_pairings">>]
    ELSE [BaseResult EXCEPT
             !.same_group = TRUE, !.can_meet_directly = TRUE,
             !.probability = Frac(target_pairing_count, Len(all_pairings)),
             !.pairing_stats = [present            |-> TRUE,
                                total_pairings     |-> Len(all_pairings),
                                favorable_pairings |-> target_pairing_count,
                                teams_in_group     |-> Len(teams_in_group),
                                team_names         |-> teams_in_group],
             !.explanation = "pairings_counted",
             !.calls = <<"generate_valid_pairings">>]

\* the direct calculation once the pairings of the group are generated
SameGroupOf(team1_name, team2_name, teams_in_group, all_pairings) ==
    SameGroupStats(teams_in_group, all_pairings,
                   TargetPairingCount(all_pairings, team1_name, team2_name))

\* the direct calculation inside the group teams_in_group
SameGroupIn(st, team1_name, team2_name, teams_in_group, order) ==
    IF Len(teams_in_group) < 2
    THEN [BaseResult EXCEPT !.same_group = TRUE, !.can_meet_directly = TRUE,
                            !.reason = [kind |-> "too_few_teams"]]
    ELSE SameGroupOf(team1_name, team2_name, teams_in_group,
                     GenerateValidPairings(st, teams_in_group, order))

\* the branch that computes the probability inside the shared group
SameGroupResult(st, team1_name, team2_name, order) ==
    SameGroupIn(st, team1_name, team2_name,
                GetTeamsByRecord(st, st.wins[team1_name], st.losses[team1_name]),
                order)

\* the result for different records before the scenario enumerator is asked
DifferentRecords(st, team1_name, team2_name) ==
    [BaseResult EXCEPT
        !.reason = [kind    |-> "different_records",
                    records |-> <<Record(st, team1_name), Record(st, team2_name)>>],
        !.calls = <<"calculate_cross_group_probability_interactive">>]

\* the result for different records that falls back to the simple paths
PathsResult(cross, paths) ==
    [cross EXCEPT
        !.paths = paths,
        !.calls = <<"calculate_cross_group_probability_interactive",
                    "_calculate_cross_group_paths">>,
        !.explanation = IF paths # <<>> THEN "conditional_paths"
                        ELSE "cannot_meet_later"]

\* the branch for two teams of different records, given what the scenario
\* enumerator returned
CrossGroupOf(st, team1_name, team2_name, cross, interactive_result) ==
    IF interactive_result.need_input
    THEN [cross EXCEPT !.need_interactive = TRUE,
                       !.interactive_data = [present |-> TRUE,
                                             data    |-> interactive_result],
                       !.explanation = "different_groups_need_input"]
    ELSE IF interactive_result.explanation # ""
    THEN [cross EXCEPT !.explanation = interactive_result.explanation]
    ELSE PathsResult(cross, CalculateCrossGroupPaths(st, team1_name, team2_name))

\* the branch for two teams of different records
CrossGroupResult(st, team1_name, team2_name, order) ==
    CrossGroupOf(st, team1_name, team2_name,
                 DifferentRecords(st, team1_name, team2_name),
                 CrossGroupInteractive(st, team1_name, team2_name,
                                       NoProbabilities, FALSE, order))

\* calculate_matchup_probability
CalculateMatchupProbability(st, team1_name, team2_name, order) ==
    IF ~HasTeam(st, team1_name) \/ ~HasTeam(st, team2_name)
    THEN [raised |-> TRUE]
    ELSE IF ~IsActive(st, team1_name) \/ ~IsActive(st, team2_name)
    THEN [BaseResult EXCEPT
             !.reason = [kind |-> "inactive",
                         name |-> IF ~IsActive(st, team1_name)
                                  THEN team1_name ELSE team2_name],
             !.explanation = "only_active_teams_meet"]
    ELSE IF team2_name \in st.played[team1_name]
    THEN [BaseResult EXCEPT !.reason = [kind |-> "already_played"],
                            !.explanation = "no_rematch"]
    ELSE IF Record(st, team1_name) = Record(st, team2_name)
    THEN IF /\ HasPending(st, team1_name) /\ HasPending(st, team2_name)
            /\ (PendingOpponent(st, team1_name) # team2_name
                \/ PendingOpponent(st, team2_name) # team1_name)
         THEN OtherOpponentsResult(st, team1_name, team2_name,
                                   CrossGroupInteractive(st, team1_name, team2_name,
                                                         NoProbabilities, TRUE, order))
         ELSE SameGroupResult(st, team1_name, team2_name, order)
    ELSE CrossGroupResult(st, team1_name, team2_name, order)

(***************************************************************************)
(* ProbabilityCalculator.simulate_advancement_probability.  The call is    *)
(* followed statement by statement: ret holds its frame, pc the place it   *)
(* is at ("trial" at the head of the for loop, "walk" at the head of the   *)
(* while loop), sim_team the wins and losses of the team of the copy.      *)
(***************************************************************************)
Running == [raised |-> FALSE, returned |-> FALSE]

Raised(error) == [raised |-> TRUE, returned |-> FALSE, error |-> error]

Rates(qualify, eliminate) ==
    [raised |-> FALSE, returned |-> TRUE, qualify |-> qualify, eliminate |-> eliminate]

Unbound == [wins |-> 0, losses |-> 0]

AdvancementFrame(team_name, num_simulations, pc, result) ==
    [op              |-> "simulate_advancement_probability",
     team_name       |-> team_name,
     num_simulations |-> num_simulations,
     pc              |-> pc,
     trial           |-> 0,
     sim_team        |-> Unbound,
     steps           |-> 0,
     qualify_count   |-> 0,
     eliminate_count |-> 0,
     result          |-> result]

\* the statements before the loop: the lookup and the two early returns
AdvancementEntry(st, team_name, num_simulations) ==
    IF ~HasTeam(st, team_name)
    THEN AdvancementFrame(team_name, num_simulations, "raised", Raised("ValueError"))
    ELSE IF IsQualified(st, team_name)
    THEN AdvancementFrame(team_name, num_simulations, "returned", Rates(One, Zero))
    ELSE IF IsEliminated(st, team_name)
    THEN AdvancementFrame(team_name, num_simulations, "returned", Rates(Zero, One))
    ELSE AdvancementFrame(team_name, num_simulations, "trial", Running)

\* sim_stage = copy.deepcopy(self.stage); sim_team = its team of that name
CopiedTeam(st, team_name) ==
    [wins |-> st.wins[team_name], losses |-> st.losses[team_name]]

\* is_qualified, is_eliminated and is_active of the copied team
SimQualified(sim_team) == sim_team.wins >= 3

SimEliminated(sim_team) == sim_team.losses >= 3

SimActive(sim_team) == ~SimQualified(sim_team) /\ ~SimEliminated(sim_team)

\* a step of the walk that adds a win and a loss at once
WalkStepBoth(sim_team, won) ==
    [wins |-> sim_team.wins + 1, losses |-> sim_team.losses + 1]

\* the body of the while loop: random.random() < 0.5 is `won`
WalkStep(sim_team, won) ==
    IF won THEN [sim_team EXCEPT !.wins = @ + 1]
    ELSE [sim_team EXCEPT !.losses = @ + 1]

\* the count after the walk that counts a qualified team on both sides
CountTrialTwice(frame) ==
    IF SimQualified(frame.sim_team)
    THEN [frame EXCEPT !.qualify_count = @ + 1, !.eliminate_count = @ + 1]
    ELSE [frame EXCEPT !.eliminate_count = @ + 1]

\* the if after the walk
CountTrial(frame) ==
    IF SimQualified(frame.sim_team)
    THEN [frame EXCEPT !.qualify_count = @ + 1]
    ELSE [frame EXCEPT !.eliminate_count = @ + 1]

\* the return statement; a division by zero raises
ReturnedRates(frame) ==
    IF frame.num_simulations = 0 THEN Raised("ZeroDivisionError")
    ELSE Rates(Frac(frame.qualify_count, frame.num_simulations),
               Frac(frame.eliminate_count, frame.num_simulations))

\* self.stage after _simulate_group_with_results: the results were applied to
\* simulated_stage, a deep copy, and self.stage was never written
CallerStageAfterSimulationShared(st, match_results) == SimulatedStage(st, match_results)

CallerStageAfterSimulation(st, match_results) == st

(***************************************************************************)
(* Calls and their results                                                 *)
(***************************************************************************)
NoCall == [op |-> "none"]

\* No call has been made on the loaded stage.  Every handler of the CLI loads
\* the stage anew before it asks (cli.py, calculate_single_matchup and
\* calculate_2_2_matchup_matrix), so a behaviour is a loaded stage and one call.
Fresh == ret = NoCall

\* every list of stage teams a caller can pass, in stage order
SubLists(names) == {Filter(names, S) : S \in SUBSET Range(names)}

\* engine.generate_valid_pairings(list) for a list drawn from `lists`; the
\* set built from the list iterates in one of the orders of HashOrders
GenerateCall(lists) ==
    /\ Fresh
    /\ \E list \in lists : \E order \in HashOrders(list) :
          ret' = [op       |-> "generate_valid_pairings",
                  teams    |-> list,
                  pairings |-> GenerateValidPairings(Stage, list, order)]
    /\ UNCHANGED stageVars

\* generate_valid_pairings on any list of teams of the stage
CallGenerateValidPairings == GenerateCall(SubLists(teams))

\* the record groups of the stage
Groups(st) ==
    {GetTeamsByRecord(st, st.wins[t], st.losses[t]) : t \in Range(st.teams)}

\* generate_valid_pairings on a record group, as the CLI calls it
CallGenerateForGroup == GenerateCall(Groups(Stage))

\* the names a caller asks about: the first two teams of the list and a
\* name that is not in the stage
QueryNames == {teams[1], teams[2], UnknownName}

\* the group calculate_matchup_probability pairs when it gets that far
GroupOf(st, name) ==
    IF HasTeam(st, name) THEN GetTeamsByRecord(st, st.wins[name], st.losses[name])
    ELSE <<>>

\* calculator.calculate_matchup_probability(team1_name, team2_name)
CallCalculateMatchupProbability ==
    /\ Fresh
    /\ \E team1_name, team2_name \in QueryNames :
          \E order \in HashOrders(GroupOf(Stage, team1_name)) :
             ret' = [op         |-> "calculate_matchup_probability",
                     team1_name |-> team1_name,
                     team2_name |-> team2_name,
                     result     |-> CalculateMatchupProbability(
                                        Stage, team1_name, team2_name, order)]
    /\ UNCHANGED stageVars

\* calculator._calculate_pairing_probability on a record group of the stage
CallCalculatePairingProbability ==
    /\ Fresh
    /\ \E team1_name, team2_name \in QueryNames \ {UnknownName} :
          \E group \in Groups(Stage) : \E order \in HashOrders(group) :
             ret' = [op         |-> "_calculate_pairing_probability",
                     team1_name |-> team1_name,
                     team2_name |-> team2_name,
                     group      |-> group,
                     result     |-> CalculatePairingProbability(
                                        Stage, team1_name, team2_name, group, order)]
    /\ UNCHANGED stageVars

\* the win probabilities a caller may pass: none, or a value for some of the
\* pending matches of the stage, keyed by the sorted pair of names
ProbValues == {Frac(1, 4), One}

PendingKeys(st) ==
    {SortedPair(m.team1, m.team2) : m \in Range(IdentifyPendingMatches(st))}

WinProbabilities(st) ==
    {NoProbabilities}
    \cup {Probabilities(map) :
             map \in UNION {[D -> ProbValues] : D \in SUBSET PendingKeys(st)}}

\* calculator.calculate_cross_group_probability_interactive(team1_name,
\* team2_name, win_probabilities, skip_current_record) for the first two
\* teams of the list in either order, or the first with an unknown name
CallCrossGroupInteractive ==
    /\ Fresh
    /\ \E names \in {<<teams[1], teams[2]>>, <<teams[2], teams[1]>>,
                      <<teams[1], UnknownName>>} :
          \E win_probabilities \in WinProbabilities(Stage) :
             \E skip_current_record \in BOOLEAN : \E order \in HashOrders(teams) :
                ret' = [op                  |-> "calculate_cross_group_probability_interactive",
                        team1_name          |-> names[1],
                        team2_name          |-> names[2],
                        win_probabilities   |-> win_probabilities,
                        skip_current_record |-> skip_current_record,
                        result              |-> CrossGroupInteractive(
                                                    Stage, names[1], names[2],
                                                    win_probabilities,
                                                    skip_current_record, order)]
    /\ UNCHANGED stageVars

\* the stage variables become the stage st
StageBecomes(st) ==
    /\ teams' = st.teams
    /\ wins' = st.wins
    /\ losses' = st.losses
    /\ opponents_played' = st.played
    /\ match_history' = st.hist

\* the results a caller may pass to _simulate_group_with_results: an outcome
\* for some of the pending matches, keyed (team1, team2)
MatchKeys(pending) == [i \in 1..Len(pending) |-> <<pending[i].team1, pending[i].team2>>]

ResultsOver(keys, f) == [i \in 1..Len(keys) |-> <<keys[i], f[keys[i]]>>]

MatchResults(st) ==
    UNION {{ResultsOver(Filter(MatchKeys(IdentifyPendingMatches(st)), S), f) :
               f \in [S -> {"team1_win", "team2_win"}]} :
           S \in SUBSET Range(MatchKeys(IdentifyPendingMatches(st)))}

\* calculator._simulate_group_with_results(target_w, target_l, match_results)
CallSimulateGroupWithResults ==
    /\ Fresh
    /\ \E target \in Range(PossibleRecords) : \E match_results \in MatchResults(Stage) :
          /\ ret' = [op            |-> "_simulate_group_with_results",
                     target        |-> target,
                     match_results |-> match_results,
                     result        |-> SimulateGroupWithResults(
                                           Stage, target[1], target[2], match_results)]
          /\ StageBecomes(CallerStageAfterSimulation(Stage, match_results))

\* simulations asked for in one call
MaxSimulations == 2

IsAdvancement == ret.op = "simulate_advancement_probability"

\* calculator.simulate_advancement_probability(team_name, num_simulations),
\* up to the head of the for loop
CallSimulateAdvancementProbability ==
    /\ Fresh
    /\ \E team_name \in QueryNames : \E num_simulations \in 0..MaxSimulations :
          ret' = AdvancementEntry(Stage, team_name, num_simulations)
    /\ UNCHANGED stageVars

\* the for loop enters a trial: the stage is copied and the team looked up
BeginTrial ==
    /\ IsAdvancement /\ ret.pc = "trial"
    /\ ret.trial < ret.num_simulations
    /\ ret' = [ret EXCEPT !.pc = "walk", !.steps = 0,
                          !.sim_team = CopiedTeam(Stage, ret.team_name)]
    /\ UNCHANGED stageVars

\* one pass of the while loop; the team of the copy is the one written
AdvanceWalk ==
    /\ IsAdvancement /\ ret.pc = "walk"
    /\ SimActive(ret.sim_team)
    /\ \E won \in BOOLEAN :
          ret' = [ret EXCEPT !.sim_team = WalkStep(ret.sim_team, won), !.steps = @ + 1]
    /\ UNCHANGED stageVars

\* the while loop is left and the trial counted
EndTrial ==
    /\ IsAdvancement /\ ret.pc = "walk"
    /\ ~SimActive(ret.sim_team)
    /\ ret' = [CountTrial(ret) EXCEPT !.pc = "trial", !.trial = @ + 1]
    /\ UNCHANGED stageVars

\* the for loop is exhausted and the rates are returned
ReturnRates ==
    /\ IsAdvancement /\ ret.pc = "trial"
    /\ ret.trial = ret.num_simulations
    /\ ret' = [ret EXCEPT !.pc = IF ReturnedRates(ret).raised THEN "raised" ELSE "returned",
                          !.result = ReturnedRates(ret)]
    /\ UNCHANGED stageVars

SimulateAdvancement ==
    \/ CallSimulateAdvancementProbability
    \/ BeginTrial
    \/ AdvanceWalk
    \/ EndTrial
    \/ ReturnRates

\* wins and losses of a target record a caller may name
MaxTarget == 3

\* calculator._find_path_to_target_group(team, target_w, target_l) for a team
\* of the stage
CallFindPathToTargetGroup ==
    /\ Fresh
    /\ \E team \in Range(teams) : \E target_w, target_l \in 0..MaxTarget :
          ret' = [op       |-> "_find_path_to_target_group",
                  team     |-> team,
                  target_w |-> target_w,
                  target_l |-> target_l,
                  result   |-> FindPathToTargetGroup(Stage, team, target_w, target_l)]
    /\ UNCHANGED stageVars

\* calculator._identify_pending_matches()
CallIdentifyPendingMatches ==
    /\ Fresh
    /\ ret' = [op     |-> "_identify_pending_matches",
               result |-> IdentifyPendingMatches(Stage)]
    /\ UNCHANGED stageVars

(***************************************************************************)
(* SpecPairing: the stages a results table of at most MaxEntries decided   *)
(* entries loads, each entry possibly recorded for one side only, and      *)
(* generate_valid_pairings applied to any list of their teams.             *)
(***************************************************************************)
PairingTeams == SubSeq(WorldsTeams, 1, Len(WorldsTeams) - 2)

DirectedPairs(names) == {p \in Range(names) \X Range(names) : p[1] # p[2]}

\* the history a table gives team t when it has played exactly the teams R
\* relates it to: opponents in list order, the alphabetically first team won
HistoryOf(names, R, t) ==
    LET opps == Filter(names, {o \in Range(names) : <<t, o>> \in R})
    IN  [i \in 1..Len(opps) |->
            <<opps[i], IF NameRank(t) < NameRank(opps[i]) THEN "True" ELSE "False">>]

CountResult(hist, res) == Cardinality({i \in 1..Len(hist) : hist[i][2] = res})

DecidedTable(names, R) ==
    [t \in Range(names) |->
        [wins   |-> CountResult(HistoryOf(names, R, t), "True"),
         losses |-> CountResult(HistoryOf(names, R, t), "False"),
         hist   |-> HistoryOf(names, R, t)]]

SetStage(st) ==
    /\ teams = st.teams
    /\ wins = st.wins
    /\ losses = st.losses
    /\ opponents_played = st.played
    /\ match_history = st.hist

InitPairing ==
    /\ \E R \in SUBSET DirectedPairs(PairingTeams) :
          /\ Cardinality(R) <= MaxEntries
          /\ SetStage(LoadStage(PairingTeams, DecidedTable(PairingTeams, R)))
    /\ ret = NoCall

NextPairing == CallGenerateValidPairings

SpecPairing == InitPairing /\ [][NextPairing]_vars

(***************************************************************************)
(* SpecOneSided: the stages of SpecPairing, asked for matchup and direct   *)
(* probabilities.                                                          *)
(***************************************************************************)
NextOneSided ==
    \/ CallCalculateMatchupProbability
    \/ CallCalculatePairingProbability

SpecOneSided == InitPairing /\ [][NextOneSided]_vars

(***************************************************************************)
(* Spec: four teams loaded from a consistent results table (every decided  *)
(* match is in both histories, a pending match is the last entry of both), *)
(* asked for matchup probabilities, direct probabilities and pairings.     *)
(***************************************************************************)
\* decided matches between teams of the stage in a table of Spec
MaxPlayedPairs == 1
\* pending matches in a table
MaxPending == 3

MainTeams == PairingTeams

\* records of the two teams asked about: two active, one qualified, one eliminated
QueryRecords == {<<2, 1>>, <<1, 2>>, <<3, 0>>, <<2, 3>>}

\* records of the other teams
OtherRecords == {<<2, 1>>, <<1, 2>>}

UnorderedPairs(S) == {{x, y} : x, y \in S} \ {{x} : x \in S}

\* the sets of at most n disjoint pairs of S
Matchings(S, n) ==
    {M \in SUBSET UnorderedPairs(S) :
        Cardinality(M) <= n /\ \A p, q \in M : p # q => p \cap q = {}}

Mutual(P) == {r \in UNION {p \X p : p \in P} : r[1] # r[2]}

\* the opponent a set of pending matches gives team t, "" when it has none
PendingOf(M, t) ==
    IF \E p \in M : t \in p
    THEN CHOOSE o \in UNION M : o # t /\ {t, o} \in M
    ELSE ""

\* a results table: records as given, the decided matches P in both teams'
\* histories, then each pending match of M as the last entry of both
ResultsTable(names, recs, P, M) ==
    [t \in Range(names) |->
        [wins   |-> recs[t][1],
         losses |-> recs[t][2],
         hist   |-> HistoryOf(names, Mutual(P), t)
                    \o (IF PendingOf(M, t) = "" THEN <<>>
                        ELSE << <<PendingOf(M, t), "None">> >>)]]

Init ==
    /\ \E ra, rb \in QueryRecords : \E rc, rd \in OtherRecords :
          \E P \in SUBSET UnorderedPairs(Range(MainTeams)) :
             \E M \in Matchings(Range(MainTeams), MaxPending) :
                /\ Cardinality(P) <= MaxPlayedPairs
                /\ SetStage(LoadStage(MainTeams,
                       ResultsTable(MainTeams,
                                    [t \in Range(MainTeams) |->
                                        IF t = MainTeams[1] THEN ra
                                        ELSE IF t = MainTeams[2] THEN rb
                                        ELSE IF t = MainTeams[3] THEN rc ELSE rd],
                                    P, M)))
    /\ ret = NoCall

Next ==
    \/ CallCalculateMatchupProbability
    \/ CallCalculatePairingProbability
    \/ CallGenerateForGroup

Spec == Init /\ [][Next]_vars

(***************************************************************************)
(* SpecCross: six teams, the first two asked about; the others are drawn   *)
(* against them or against each other, so that pending matches decide who  *)
(* joins the group where the two can meet.                                 *)
(***************************************************************************)
CrossTeams == WorldsTeams

\* records of the two teams asked about: one result away from a group of
\* possible_records
CrossRecords == {<<1, 1>>, <<2, 1>>, <<1, 2>>}

\* records of the first team: those, and one from which one result is not
\* enough to meet a team at 2-1
FirstCrossRecords == CrossRecords \cup {<<0, 2>>}

\* records of the other teams: a win or a loss takes them into such a group
OtherCrossRecords == {<<1, 1>>, <<2, 1>>}

\* the matches that may be pending in a table of SpecCross
CrossPending ==
    {{CrossTeams[1], CrossTeams[2]}, {CrossTeams[1], CrossTeams[3]},
     {CrossTeams[2], CrossTeams[4]}, {CrossTeams[3], CrossTeams[4]},
     {CrossTeams[5], CrossTeams[6]}}

\* the matches that may be decided in a table of SpecCross
CrossPlayed ==
    {{CrossTeams[1], CrossTeams[2]}, {CrossTeams[3], CrossTeams[4]}}

\* the third and fourth team share a record, the fifth and sixth too
CrossRecordsOf(ra, rb, rc, re) ==
    [t \in Range(CrossTeams) |->
        IF t = CrossTeams[1] THEN ra
        ELSE IF t = CrossTeams[2] THEN rb
        ELSE IF t \in {CrossTeams[3], CrossTeams[4]} THEN rc ELSE re]

InitCross ==
    /\ \E ra \in FirstCrossRecords : \E rb \in CrossRecords :
       \E rc, re \in OtherCrossRecords :
          \E P \in SUBSET CrossPlayed :
             \E M \in Matchings(Range(CrossTeams), MaxPending) \cap SUBSET CrossPending :
                /\ Cardinality(P) <= MaxPlayedPairs
                /\ P \cap M = {}
                /\ SetStage(LoadStage(CrossTeams,
                       ResultsTable(CrossTeams, CrossRecordsOf(ra, rb, rc, re), P, M)))
    /\ ret = NoCall

NextCross == CallCrossGroupInteractive

SpecCross == InitCross /\ [][NextCross]_vars

(***************************************************************************)
(* SpecAdvance: four teams without history, the first at any record a team *)
(* can hold, and simulate_advancement_probability followed step by step.   *)
(* SpecAdvanceFair adds that a call that can take a step takes it.         *)
(***************************************************************************)
\* the records a team can hold: at most three wins and three losses, not both
AdvanceRecords == ((0..3) \X (0..3)) \ {<<3, 3>>}

InitAdvance ==
    /\ \E ra \in AdvanceRecords : \E rb \in QueryRecords : \E rc \in OtherRecords :
          SetStage(LoadStage(MainTeams,
              ResultsTable(MainTeams,
                           [t \in Range(MainTeams) |->
                               IF t = MainTeams[1] THEN ra
                               ELSE IF t = MainTeams[2] THEN rb ELSE rc],
                           {}, {})))
    /\ ret = NoCall

NextAdvance == SimulateAdvancement

SpecAdvance == InitAdvance /\ [][NextAdvance]_vars

SpecAdvanceFair == SpecAdvance /\ WF_vars(NextAdvance)

(***************************************************************************)
(* SpecAnalysis: the stages of SpecCross and every analysis operation.     *)
(***************************************************************************)
NextAnalysis ==
    \/ CallCalculateMatchupProbability
    \/ CallCrossGroupInteractive
    \/ CallSimulateGroupWithResults
    \/ CallGenerateForGroup
    \/ SimulateAdvancement

SpecAnalysis == InitCross /\ [][NextAnalysis]_vars

(***************************************************************************)
(* SpecTeam: one team created empty and a sequence of add_match_result     *)
(* calls on it, against either of two opponents.                           *)
(***************************************************************************)
\* results added to a team
MaxResults == 6

TeamNames == SubSeq(WorldsTeams, 1, 1)

Opponents == {WorldsTeams[2], WorldsTeams[3]}

InitTeam ==
    /\ SetStage(EmptyStage(TeamNames))
    /\ ret = NoCall

\* team.add_match_result(opponent, won): won, lost or pending
CallAddMatchResult ==
    /\ \E team \in Range(teams) : \E opponent \in Opponents :
          \E won \in {"True", "False", "None"} :
             /\ Len(match_history[team]) < MaxResults
             /\ StageBecomes(AddMatchResult(Stage, team, opponent, won))
    /\ UNCHANGED ret

NextTeam == CallAddMatchResult

SpecTeam == InitTeam /\ [][NextTeam]_vars

(***************************************************************************)
(* SpecDrawn: four teams, the first at any record, each drawn against at   *)
(* most one other team of the stage, which need not list the match; the    *)
(* first team's match may have been decided since.  Paths and pending      *)
(* matches are asked for.                                                  *)
(***************************************************************************)
\* the table in which team t is drawn against draw[t] ("" for no draw); the
\* teams of `decided` have added the result of that match, a win, after it
DrawnTable(names, recs, draw, decided) ==
    [t \in Range(names) |->
        [wins   |-> recs[t][1],
         losses |-> recs[t][2],
         hist   |-> IF draw[t] = "" THEN <<>>
                    ELSE IF t \in decided
                    THEN << <<draw[t], "None">>, <<draw[t], "True">> >>
                    ELSE << <<draw[t], "None">> >>]]

InitDrawn ==
    /\ \E ra \in AdvanceRecords : \E rb \in OtherRecords :
          \E draw \in [Range(MainTeams) -> Range(MainTeams) \cup {""}] :
             \E decided \in SUBSET {MainTeams[1]} :
                /\ \A t \in Range(MainTeams) : draw[t] # t
                /\ SetStage(LoadStage(MainTeams,
                       DrawnTable(MainTeams,
                                  [t \in Range(MainTeams) |->
                                      IF t = MainTeams[1] THEN ra
                                      ELSE IF t = MainTeams[2] THEN rb
                                      ELSE <<2, 1>>],
                                  draw, decided)))
    /\ ret = NoCall

NextDrawn ==
    \/ CallFindPathToTargetGroup
    \/ CallIdentifyPendingMatches

SpecDrawn == InitDrawn /\ [][NextDrawn]_vars

(***************************************************************************)
(* Claims about generate_valid_pairings (SpecPairing)                      *)
(***************************************************************************)
IsGenerated == ret.op = "generate_valid_pairings"

InputSet == Range(ret.teams)

SymmetricWithin(st, S) ==
    \A x, y \in S : (y \in st.played[x]) <=> (x \in st.played[y])

\* the number of pairs of `pairing` that team t is a member of
PairsHolding(pairing, t) ==
    Cardinality({j \in 1..Len(pairing) : t \in {pairing[j][1], pairing[j][2]}})

\* C1: every returned pairing holds each input team in exactly one pair and
\* no pair of which either team has the other in its played-set, whatever
\* the input list is.
C1_CoversOnceAndNoRematch ==
    IsGenerated =>
        \A i \in 1..Len(ret.pairings) :
            /\ \A t \in InputSet : PairsHolding(ret.pairings[i], t) = 1
            /\ \A j \in 1..Len(ret.pairings[i]) :
                  /\ {ret.pairings[i][j][1], ret.pairings[i][j][2]} \subseteq InputSet
                  /\ ~HavePlayed(Stage, ret.pairings[i][j][1], ret.pairings[i][j][2])

\* C2: for an even-size team set with symmetric played-sets, every partition
\* into pairs of teams that have not played each other is among the returned
\* pairings: the no-partner prune loses no valid pairing.
C2_Complete ==
    (IsGenerated /\ Len(ret.teams) % 2 = 0 /\ SymmetricWithin(Stage, InputSet)) =>
        ValidPartitions(Stage, InputSet)
            \subseteq {AsPartition(ret.pairings[i]) : i \in 1..Len(ret.pairings)}

\* the prune rejected a legal first pair of the input, and pairings were found
C2_Witness ==
    /\ IsGenerated /\ Len(ret.teams) = 4 /\ SymmetricWithin(Stage, InputSet)
    /\ \E x, y \in InputSet :
          CanPlayAgainst(Stage, x, y) /\ ~IsValidPairing(Stage, InputSet \ {x, y})
    /\ Len(ret.pairings) >= 1

\* C3: no two entries of the returned list are the same partition.
C3_NoDuplicatePartition ==
    IsGenerated =>
        \A i, j \in 1..Len(ret.pairings) :
            i # j => AsPartition(ret.pairings[i]) # AsPartition(ret.pairings[j])

\* four teams none of which has played another: three distinct pairings
C3_Witness ==
    IsGenerated /\ Len(ret.teams) = 4 /\ Len(ret.pairings) = 3

\* C5: an input list of odd length yields the empty list of pairings.
C5_OddIsEmpty ==
    (IsGenerated /\ Len(ret.teams) % 2 = 1) => ret.pairings = <<>>

\* three teams, two of which could be paired, and nothing is returned
C5_Witness ==
    /\ IsGenerated /\ Len(ret.teams) = 3 /\ ret.pairings = <<>>
    /\ \E x, y \in InputSet : CanPlayAgainst(Stage, x, y) /\ CanPlayAgainst(Stage, y, x)

(***************************************************************************)
(* Claims about calculate_matchup_probability and the direct calculator    *)
(* (Spec).  The claims speak of the stage and of the returned values only. *)
(***************************************************************************)
IsMatchup == ret.op = "calculate_matchup_probability"

IsDirect == ret.op = "_calculate_pairing_probability"

\* a matchup call on two teams of the stage, which returns a result
Answered ==
    /\ IsMatchup
    /\ ret.team1_name \in Range(teams) /\ ret.team2_name \in Range(teams)

Qualified(t) == wins[t] >= 3

Eliminated(t) == losses[t] >= 3

Active(t) == ~Qualified(t) /\ ~Eliminated(t)

PlayedEachOther(x, y) == y \in opponents_played[x] /\ x \in opponents_played[y]

\* the active teams whose record is that of team t
Bucket(t) ==
    {u \in Range(teams) : Active(u) /\ wins[u] = wins[t] /\ losses[u] = losses[t]}

\* the last entry of the history of t is a match without a result
Drawn(t) ==
    match_history[t] # <<>> /\ match_history[t][Len(match_history[t])][2] = "None"

DrawnAgainst(t) == match_history[t][Len(match_history[t])][1]

\* both teams are drawn, and not against each other
BothDrawnElsewhere(x, y) ==
    /\ Drawn(x) /\ Drawn(y)
    /\ ~(DrawnAgainst(x) = y /\ DrawnAgainst(y) = x)

\* prob = favorable / total over the valid pairings of bucket S, counts given
CountsAgree(S, x, y, prob, total, favorable) ==
    LET V == ValidPartitions(Stage, S)
    IN  /\ total = Cardinality(V)
        /\ favorable = Cardinality({P \in V : {x, y} \in P})
        /\ prob[1] * total = favorable * prob[2]
        /\ total = 0 => prob = Zero
        /\ (S = {x, y} /\ ~HavePlayed(Stage, x, y)) => prob = One

\* C4: the probability reported for two teams of a bucket is the number of
\* valid pairings of the bucket that hold the pair divided by the number of
\* valid pairings, both counts are reported, it is 0 with total 0 when the
\* bucket has no valid pairing, and 1 for a bucket of two teams that have
\* not played; the top-level calculator reports the same inside a bucket.
C4_DirectProbability ==
    /\ (/\ IsDirect /\ ret.team1_name # ret.team2_name
        /\ {ret.team1_name, ret.team2_name} \subseteq Range(ret.group))
       => CountsAgree(Range(ret.group), ret.team1_name, ret.team2_name,
                      ret.result.probability, ret.result.total_pairings,
                      ret.result.favorable_pairings)
    /\ (/\ Answered /\ ret.team1_name # ret.team2_name
        /\ ret.result.same_group)
       => IF ret.result.pairing_stats.present
          THEN /\ CountsAgree(Bucket(ret.team1_name), ret.team1_name, ret.team2_name,
                              ret.result.probability,
                              ret.result.pairing_stats.total_pairings,
                              ret.result.pairing_stats.favorable_pairings)
               /\ ret.result.pairing_stats.total_pairings > 0
          ELSE /\ ret.result.probability = Zero
               /\ ValidPartitions(Stage, Bucket(ret.team1_name)) = {}

\* a bucket of four where one of the two valid pairings holds the pair asked
C4_Witness ==
    /\ IsDirect /\ ret.team1_name # ret.team2_name
    /\ Len(ret.group) = 4
    /\ ret.result.total_pairings = 2 /\ ret.result.favorable_pairings = 1
    /\ ret.result.probability = Half

\* C6 as stated: whenever two teams have played each other the already-played
\* reason is returned with probability 0 and nothing is enumerated, and no
\* generated pairing holds the two.
C6_AlreadyPlayedAlways ==
    /\ (Answered /\ PlayedEachOther(ret.team1_name, ret.team2_name))
       => /\ ~ret.result.raised
          /\ ret.result.probability = Zero
          /\ ret.result.reason.kind = "already_played"
          /\ ret.result.calls = <<>>
    /\ IsGenerated
       => \A x, y \in Range(ret.teams) :
             PlayedEachOther(x, y)
             => \A i \in 1..Len(ret.pairings) : {x, y} \notin AsPartition(ret.pairings[i])

\* C6: when two active teams have played each other the already-played reason
\* is returned with probability 0 and nothing is enumerated, whatever other
\* pairings their bucket admits; no generated pairing of a list that holds
\* two teams that played each other pairs them, and the direct calculator
\* gives them 0.
C6_AlreadyPlayed ==
    /\ (/\ Answered /\ PlayedEachOther(ret.team1_name, ret.team2_name)
        /\ Active(ret.team1_name) /\ Active(ret.team2_name))
       => /\ ~ret.result.raised
          /\ ret.result.probability = Zero
          /\ ret.result.reason.kind = "already_played"
          /\ ret.result.calls = <<>>
          /\ ~ret.result.pairing_stats.present
    /\ IsGenerated
       => \A x, y \in Range(ret.teams) :
             PlayedEachOther(x, y)
             => \A i \in 1..Len(ret.pairings) : {x, y} \notin AsPartition(ret.pairings[i])
    /\ (IsDirect /\ PlayedEachOther(ret.team1_name, ret.team2_name))
       => ret.result.probability = Zero /\ ret.result.favorable_pairings = 0

\* two active teams of a bucket of four have played, the bucket still has a
\* valid pairing, and the matchup call answered
C6_Witness ==
    /\ Answered /\ PlayedEachOther(ret.team1_name, ret.team2_name)
    /\ Active(ret.team1_name) /\ Active(ret.team2_name)
    /\ Cardinality(Bucket(ret.team1_name)) = 4
    /\ ret.team2_name \in Bucket(ret.team1_name)
    /\ ValidPartitions(Stage, Bucket(ret.team1_name)) # {}
    /\ ret.result.reason.kind = "already_played"

\* C7: when a team of the pair is qualified or eliminated the probability is
\* 0, the reason names a team of the pair that is not active, and nothing
\* else is looked at: no already-played reason, no pairing, no scenario.
C7_InactiveFirst ==
    (Answered /\ (~Active(ret.team1_name) \/ ~Active(ret.team2_name)))
    => /\ ~ret.result.raised
       /\ ret.result.probability = Zero
       /\ ret.result.reason.kind = "inactive"
       /\ ret.result.reason.name \in {ret.team1_name, ret.team2_name}
       /\ ~Active(ret.result.reason.name)
       /\ ret.result.calls = <<>>
       /\ ~ret.result.pairing_stats.present
       /\ ~ret.result.need_interactive

\* a qualified team asked about with a team it has played
C7_Witness ==
    /\ Answered /\ Qualified(ret.team1_name) /\ Active(ret.team2_name)
    /\ PlayedEachOther(ret.team1_name, ret.team2_name)
    /\ ret.result.reason.kind = "inactive"
    /\ ret.result.reason.name = ret.team1_name

\* C8: when the same active team is passed twice the probability is 0, a
\* reason is given and neither scenarios nor pairings are enumerated.
C8_SameCompetitor ==
    (Answered /\ ret.team1_name = ret.team2_name /\ Active(ret.team1_name))
    => /\ ~ret.result.raised
       /\ ret.result.probability = Zero
       /\ ret.result.reason.kind # ""
       /\ ret.result.calls = <<>>

\* C9 as stated: equal records always give the direct calculation, different
\* records the scenario enumerator.
C9_DispatchByRecord ==
    (/\ Answered /\ ret.team1_name # ret.team2_name
     /\ Active(ret.team1_name) /\ Active(ret.team2_name)
     /\ ~HavePlayed(Stage, ret.team1_name, ret.team2_name))
    => IF Record(Stage, ret.team1_name) = Record(Stage, ret.team2_name)
       THEN /\ ret.result.same_group /\ ret.result.can_meet_directly
            /\ ret.result.calls = <<"generate_valid_pairings">>
       ELSE /\ ~ret.result.same_group
            /\ ret.result.calls[1] = "calculate_cross_group_probability_interactive"

\* C9: for two distinct active teams that have not played each other, equal
\* records give the direct calculation over their bucket (same_group and
\* can_meet_directly true) unless both are already drawn and not against
\* each other, and then, as for different records, same_group is false and
\* the scenario enumerator is asked.
C9_Dispatch ==
    (/\ Answered /\ ret.team1_name # ret.team2_name
     /\ Active(ret.team1_name) /\ Active(ret.team2_name)
     /\ ~HavePlayed(Stage, ret.team1_name, ret.team2_name))
    => IF /\ Record(Stage, ret.team1_name) = Record(Stage, ret.team2_name)
          /\ ~BothDrawnElsewhere(ret.team1_name, ret.team2_name)
       THEN /\ ret.result.same_group /\ ret.result.can_meet_directly
            /\ ret.result.calls = <<"generate_valid_pairings">>
       ELSE /\ ~ret.result.same_group /\ ~ret.result.can_meet_directly
            /\ ret.result.calls[1] = "calculate_cross_group_probability_interactive"
            /\ ret.result.probability = Zero

\* two teams of one record, each drawn against a third team
C9_Witness ==
    /\ Answered /\ ret.team1_name # ret.team2_name
    /\ Active(ret.team1_name) /\ Active(ret.team2_name)
    /\ ~HavePlayed(Stage, ret.team1_name, ret.team2_name)
    /\ Record(Stage, ret.team1_name) = Record(Stage, ret.team2_name)
    /\ BothDrawnElsewhere(ret.team1_name, ret.team2_name)
    /\ ~ret.result.same_group
    /\ ret.result.reason.kind = "other_opponents"

(***************************************************************************)
(* Claims about calculate_cross_group_probability_interactive (SpecCross)  *)
(***************************************************************************)
IsCross == ret.op = "calculate_cross_group_probability_interactive"

\* the call was given win probabilities and found a group for the two teams
Enumerated ==
    /\ IsCross /\ ret.win_probabilities.given
    /\ ret.result.prerequisites # <<>>

ScenarioProbabilities ==
    [i \in 1..Len(ret.result.scenarios) |-> ret.result.scenarios[i].probability]

RECURSIVE Pow2(_)
Pow2(n) == IF n = 0 THEN 1 ELSE 2 * Pow2(n - 1)

\* C10: whatever the number k of impact matches and whatever values in [0,1]
\* are supplied, the occurrence probabilities of the 2^k scenarios sum to 1;
\* without impact matches there is one scenario, of probability 1.
C10_ScenariosSumToOne ==
    Enumerated
    => /\ Len(ret.result.scenarios) = Pow2(Len(ret.result.impact_matches))
       /\ FracSum(ScenarioProbabilities) = One
       /\ \A i \in 1..Len(ret.result.scenarios) :
              /\ ret.result.scenarios[i].probability[1] >= 0
              /\ ret.result.scenarios[i].probability[1]
                    <= ret.result.scenarios[i].probability[2]
       /\ ret.result.impact_matches = <<>>
          => ret.result.scenarios[1].probability = One

\* two impact matches, one with a supplied value and one without
C10_Witness ==
    /\ Enumerated
    /\ Len(ret.result.impact_matches) = 2
    /\ Len(ret.result.scenarios) = 4
    /\ Cardinality(DOMAIN ret.win_probabilities.map
                    \cap {SortedPair(ret.result.impact_matches[i].team1,
                                     ret.result.impact_matches[i].team2) : i \in 1..2}) = 1
    /\ \E i \in 1..4 : ret.result.scenarios[i].probability = Frac(1, 8)

ImpactKeys ==
    {<<ret.result.impact_matches[i].team1, ret.result.impact_matches[i].team2>> :
        i \in 1..Len(ret.result.impact_matches)}

\* the record the two teams are brought to
TargetOf == ret.result.prerequisites[1].needs.target

\* team t enters the target group with one more win or one more loss
OneResultFrom(t, rec) ==
    \/ wins[t] + 1 = rec[1] /\ losses[t] = rec[2]
    \/ wins[t] = rec[1] /\ losses[t] + 1 = rec[2]

\* C11: with probabilities supplied and k impact matches there are exactly
\* 2^k scenarios, one for each assignment of a winner to every impact match;
\* a pending match is one impact match even when both of its teams would
\* enter the target group; there is exactly one scenario when k = 0.
C11_AllAssignments ==
    Enumerated
    => LET k == Len(ret.result.impact_matches)
       IN  /\ Cardinality(ImpactKeys) = k
           /\ Len(ret.result.scenarios) = Pow2(k)
           /\ {ret.result.scenarios[i].match_results : i \in 1..Len(ret.result.scenarios)}
                 = [1..k -> {"team1_win", "team2_win"}]
           /\ k = 0 => Len(ret.result.scenarios) = 1

\* one impact match, both of whose teams are one win from the target group,
\* and two scenarios
C11_Witness ==
    /\ Enumerated
    /\ Len(ret.result.impact_matches) = 1
    /\ OneResultFrom(ret.result.impact_matches[1].team1, TargetOf)
    /\ OneResultFrom(ret.result.impact_matches[1].team2, TargetOf)
    /\ Len(ret.result.scenarios) = 2

\* the key under which a caller supplies the probability of impact match i
SuppliedKey(i) ==
    SortedPair(ret.result.impact_matches[i].team1, ret.result.impact_matches[i].team2)

\* a value was supplied for every impact match
AllSupplied ==
    \A i \in 1..Len(ret.result.impact_matches) :
        SuppliedKey(i) \in DOMAIN ret.win_probabilities.map

\* the supplied probability of the outcome chosen for impact match i
ChosenProbability(i, outcome) ==
    LET p == ret.win_probabilities.map[SuppliedKey(i)]
    IN  IF outcome = "team1_win" THEN p ELSE <<p[2] - p[1], p[2]>>

RECURSIVE ProductOf(_)
ProductOf(ps) ==
    IF ps = <<>> THEN One ELSE FracMul(Head(ps), ProductOf(Tail(ps)))

InUnitInterval(p) == p[2] > 0 /\ p[1] >= 0 /\ p[1] <= p[2]

\* C12: weighted_probability is the sum over the scenarios of occurrence
\* probability times direct pairing probability, each occurrence probability
\* is the product of the supplied probabilities of the outcomes chosen for
\* the impact matches, and the result lies in [0,1].
C12_WeightedSum ==
    Enumerated
    => /\ ret.result.weighted_probability
            = FracSum([i \in 1..Len(ret.result.scenarios) |->
                          FracMul(ret.result.scenarios[i].probability,
                                  ret.result.scenarios[i].pairing_stats.probability)])
       /\ AllSupplied
          => \A i \in 1..Len(ret.result.scenarios) :
                ret.result.scenarios[i].probability
                  = ProductOf([j \in 1..Len(ret.result.impact_matches) |->
                                  ChosenProbability(
                                      j, ret.result.scenarios[i].match_results[j])])
       /\ InUnitInterval(ret.result.weighted_probability)

\* an impact match with a supplied value of 1/4 and a result strictly
\* between 0 and 1
C12_Witness ==
    /\ Enumerated /\ AllSupplied
    /\ Len(ret.result.impact_matches) >= 1
    /\ \E i \in 1..Len(ret.result.scenarios) :
          /\ ret.result.scenarios[i].probability = Frac(1, 4)
          /\ ret.result.scenarios[i].pairing_stats.favorable_pairings > 0
    /\ ret.result.weighted_probability[1] > 0
    /\ ret.result.weighted_probability[1] < ret.result.weighted_probability[2]

\* a call on two teams of the stage
CrossAnswered ==
    /\ IsCross
    /\ ret.team1_name \in Range(teams) /\ ret.team2_name \in Range(teams)

\* team t is at record rec or one result away from it
Reaches(t, rec) == Record(Stage, t) = rec \/ OneResultFrom(t, rec)

\* the candidate records both teams of the call reach, not both being there,
\* the first team's own record left out when the call says to skip it
CommonTargets ==
    {rec \in {<<1, 1>>, <<2, 1>>, <<1, 2>>, <<2, 2>>} :
        /\ Reaches(ret.team1_name, rec) /\ Reaches(ret.team2_name, rec)
        /\ ~(Record(Stage, ret.team1_name) = rec /\ Record(Stage, ret.team2_name) = rec)
        /\ ~(ret.skip_current_record /\ Record(Stage, ret.team1_name) = rec)}

\* the matches of the stage that are drawn and not decided
PendingPairs ==
    {{z, DrawnAgainst(z)} :
        z \in {u \in Range(teams) : Drawn(u) /\ DrawnAgainst(u) \in Range(teams)}}

\* C13: called without probabilities when a common target group exists, the
\* enumerator says that input is needed, returns the prerequisites of the two
\* teams and the impact matches (pending matches with a team one result from
\* the target), and guesses nothing: no scenario, weighted_probability 0.
C13_InputRequired ==
    (CrossAnswered /\ ~ret.win_probabilities.given /\ CommonTargets # {})
    => /\ ret.result.need_input
       /\ Len(ret.result.prerequisites) = 2
       /\ ret.result.prerequisites[1].team = ret.team1_name
       /\ ret.result.prerequisites[2].team = ret.team2_name
       /\ TargetOf \in CommonTargets
       /\ \A i \in 1..Len(ret.result.impact_matches) :
             /\ {ret.result.impact_matches[i].team1, ret.result.impact_matches[i].team2}
                   \in PendingPairs
             /\ \/ OneResultFrom(ret.result.impact_matches[i].team1, TargetOf)
                \/ OneResultFrom(ret.result.impact_matches[i].team2, TargetOf)
       /\ Cardinality(ImpactKeys) = Len(ret.result.impact_matches)
       /\ ret.result.scenarios = <<>>
       /\ ret.result.weighted_probability = Zero
       /\ ret.result.explanation = ""

\* no probabilities, a common target and two impact matches returned
C13_Witness ==
    /\ CrossAnswered /\ ~ret.win_probabilities.given /\ CommonTargets # {}
    /\ ret.result.need_input
    /\ Len(ret.result.impact_matches) = 2

\* C14: the enumerator has no default of its own: it produces scenarios only
\* from supplied values, so none when an impact match is absent from the
\* supplied mapping.
C14_NoImplicitDefault ==
    (Enumerated /\ ~AllSupplied) => ret.result.scenarios = <<>>

\* C15: when no candidate record is within one result of both teams, the
\* enumerator returns no scenario, weighted_probability 0, need_input false
\* and an explanation, with or without probabilities.
C15_Unreachable ==
    (/\ CrossAnswered
     /\ \A rec \in {<<1, 1>>, <<2, 1>>, <<1, 2>>, <<2, 2>>} :
           ~(Reaches(ret.team1_name, rec) /\ Reaches(ret.team2_name, rec)))
    => /\ ret.result.scenarios = <<>>
       /\ ret.result.weighted_probability = Zero
       /\ ~ret.result.need_input
       /\ ret.result.explanation # ""
       /\ ret.result.prerequisites = <<>>
       /\ ret.result.impact_matches = <<>>

\* a team at 0-2 and a team at 2-1, probabilities supplied, pending matches
\* in the stage
C15_Witness ==
    /\ CrossAnswered /\ ret.win_probabilities.given
    /\ DOMAIN ret.win_probabilities.map # {}
    /\ Record(Stage, ret.team1_name) = <<2, 1>>
    /\ Record(Stage, ret.team2_name) = <<0, 2>>
    /\ ret.result.explanation = "no_common_group"

SwappedDirect(order) ==
    CalculatePairingProbability(Stage, ret.team2_name, ret.team1_name, ret.group, order)

\* the probability the calculator returns for the two names the other way round
SwappedMatchup(order) ==
    CalculateMatchupProbability(Stage, ret.team2_name, ret.team1_name, order).probability

\* C17: inside a bucket the direct probability and its two counts are the
\* same for (a, b) and (b, a), in _calculate_pairing_probability and in the
\* probability calculate_matchup_probability returns; the probability lies in
\* [0, 1] and favorable_pairings <= total_pairings.  The call the other way
\* round is free to iterate its sets in any order: it is enough that one
\* order makes it agree.
C17_Symmetric ==
    /\ (/\ IsDirect
        /\ {ret.team1_name, ret.team2_name} \subseteq Range(ret.group))
       => /\ \E order \in HashOrders(ret.group) :
                /\ SwappedDirect(order).probability = ret.result.probability
                /\ SwappedDirect(order).total_pairings = ret.result.total_pairings
                /\ SwappedDirect(order).favorable_pairings = ret.result.favorable_pairings
          /\ InUnitInterval(ret.result.probability)
          /\ ret.result.favorable_pairings >= 0
          /\ ret.result.favorable_pairings <= ret.result.total_pairings
    /\ (/\ Answered
        /\ Record(Stage, ret.team1_name) = Record(Stage, ret.team2_name))
       => /\ \E order \in HashOrders(GroupOf(Stage, ret.team2_name)) :
                SwappedMatchup(order) = ret.result.probability
          /\ InUnitInterval(ret.result.probability)
          /\ ret.result.pairing_stats.present
             => ret.result.pairing_stats.favorable_pairings
                   <= ret.result.pairing_stats.total_pairings

\* the partitions a list of pairings holds
PartitionsOf(pairings) == {AsPartition(pairings[i]) : i \in 1..Len(pairings)}

\* C18: the partitions generate_valid_pairings returns for a list of teams
\* are the same for every iteration order of the internal set and every
\* order of the input list, and so is their number.
C18_OrderIndependent ==
    IsGenerated =>
        \A list \in ListOrders(ret.teams) : \A order \in HashOrders(ret.teams) :
            /\ PartitionsOf(GenerateValidPairings(Stage, list, order))
                  = PartitionsOf(ret.pairings)
            /\ Len(GenerateValidPairings(Stage, list, order)) = Len(ret.pairings)

(***************************************************************************)
(* Claims about simulate_advancement_probability (SpecAdvance)             *)
(***************************************************************************)
\* the call was made on a team of the stage
AdvancementOf(t) == IsAdvancement /\ ret.team_name = t

\* the call has returned its rates
Returned == IsAdvancement /\ ret.pc = "returned"

\* C19: on an existing team and with num_simulations >= 1, every finished
\* trial is counted once, as a qualification or as an elimination, so the two
\* counts add up to num_simulations and the two rates to 1 when the call
\* returns; a team already qualified gets (1, 0), one already eliminated (0, 1).
C19_EveryTrialCounted ==
    \A t \in Range(teams) :
        (AdvancementOf(t) /\ ret.num_simulations >= 1) =>
            /\ ret.qualify_count >= 0 /\ ret.eliminate_count >= 0
            /\ Active(t) => ret.qualify_count + ret.eliminate_count = ret.trial
            /\ (Returned /\ Active(t)) =>
                  /\ ret.qualify_count + ret.eliminate_count = ret.num_simulations
                  /\ ret.result.qualify[1] * ret.num_simulations
                        = ret.qualify_count * ret.result.qualify[2]
                  /\ ret.result.eliminate[1] * ret.num_simulations
                        = ret.eliminate_count * ret.result.eliminate[2]
            /\ Returned => FracAdd(ret.result.qualify, ret.result.eliminate) = One
            /\ Qualified(t) =>
                  Returned /\ ret.result.qualify = One /\ ret.result.eliminate = Zero
            /\ Eliminated(t) =>
                  Returned /\ ret.result.qualify = Zero /\ ret.result.eliminate = One
            /\ ~ret.result.raised

\* two trials of an active team, one ended qualified and one eliminated
C19_Witness ==
    /\ Returned /\ ret.num_simulations = 2 /\ Active(ret.team_name)
    /\ ret.qualify_count = 1 /\ ret.eliminate_count = 1
    /\ ret.result.qualify = Half /\ ret.result.eliminate = Half

\* a trial is inside its while loop
Walking == IsAdvancement /\ ret.pc = "walk"

\* the most steps a walk from the record of the team asked about can take
StepBound == (3 - wins[ret.team_name]) + (3 - losses[ret.team_name]) - 1

\* the walk so far: as many results as steps, none past a threshold, and when
\* the loop condition fails exactly one threshold is met
WalkWithinBound ==
    Walking =>
        /\ wins[ret.team_name] \in 0..2 /\ losses[ret.team_name] \in 0..2
        /\ ret.steps <= StepBound
        /\ ret.sim_team.wins + ret.sim_team.losses
              = wins[ret.team_name] + losses[ret.team_name] + ret.steps
        /\ ret.sim_team.wins <= 3 /\ ret.sim_team.losses <= 3
        /\ ~SimActive(ret.sim_team) => (ret.sim_team.wins = 3) # (ret.sim_team.losses = 3)

\* a pass of the loop adds one win or one loss, never both
OneResultAdded ==
    (Walking /\ Walking') =>
        \/ /\ ret'.sim_team.wins = ret.sim_team.wins + 1
           /\ ret'.sim_team.losses = ret.sim_team.losses
        \/ /\ ret'.sim_team.wins = ret.sim_team.wins
           /\ ret'.sim_team.losses = ret.sim_team.losses + 1

\* C20: every trial of the walk terminates: from an active record (w, l)
\* each step adds exactly one win or one loss, the loop is left after at most
\* (3 - w) + (3 - l) - 1 steps, and then exactly one of wins = 3 and
\* losses = 3 holds.
C20_WalkTerminates ==
    /\ []WalkWithinBound
    /\ [][OneResultAdded]_vars
    /\ Walking ~> ~Walking

\* a walk from 0-0 that took all of its five steps
C20_Witness ==
    /\ Walking /\ Record(Stage, ret.team_name) = <<0, 0>>
    /\ ret.steps = 5 /\ ~SimActive(ret.sim_team)

(***************************************************************************)
(* Claims about names that are not in the stage (SpecAnalysis)             *)
(***************************************************************************)
\* the call was given a name no team of the stage has
UnknownAsked ==
    \/ (IsMatchup \/ IsCross) /\ ~({ret.team1_name, ret.team2_name} \subseteq Range(teams))
    \/ IsAdvancement /\ ret.team_name \notin Range(teams)

\* C21: a name that is not in the stage is reported inside the returned
\* result: the call does not raise, and the result says so rather than being
\* an ordinary zero result, for calculate_matchup_probability,
\* calculate_cross_group_probability_interactive and
\* simulate_advancement_probability.
C21_NotFoundReported ==
    UnknownAsked =>
        /\ ~(IsMatchup /\ ret.result.raised)
        /\ ~(IsAdvancement /\ ret.result.raised)
        /\ IsMatchup => ret.result.reason.kind # ""
        /\ IsCross => ret.result.explanation # ""
        /\ IsAdvancement => ret.pc = "returned"

(***************************************************************************)
(* Claims about the supplied probabilities (SpecCross)                     *)
(***************************************************************************)
\* the team that wins impact match i under `outcome`
WinnerOf(i, outcome) ==
    IF outcome = "team1_win" THEN ret.result.impact_matches[i].team1
    ELSE ret.result.impact_matches[i].team2

\* the supplied value read as the probability that the first name of the
\* sorted key wins
CanonicalProbability(i, outcome) ==
    IF WinnerOf(i, outcome) = SuppliedKey(i)[1]
    THEN ret.win_probabilities.map[SuppliedKey(i)]
    ELSE Complement(ret.win_probabilities.map[SuppliedKey(i)])

\* C22: the value supplied under the sorted pair of names of an impact match
\* is applied as the probability that the first name of that pair wins, and
\* one minus it as the probability that the second wins, whichever of the
\* two teams comes first in the team list of the stage.
C22_CanonicalKey ==
    (Enumerated /\ AllSupplied)
    => \A i \in 1..Len(ret.result.scenarios) :
          ret.result.scenarios[i].probability
            = ProductOf([j \in 1..Len(ret.result.impact_matches) |->
                            CanonicalProbability(
                                j, ret.result.scenarios[i].match_results[j])])

(***************************************************************************)
(* Claims about add_match_result (SpecTeam)                                *)
(***************************************************************************)
\* the opponents of the entries of team t that have outcome `won`
EntriesWith(t, won) ==
    {match_history[t][i][1] :
        i \in {j \in 1..Len(match_history[t]) : match_history[t][j][2] = won}}

\* C26: after any sequence of add_match_result calls on a team created empty,
\* the played-set holds exactly the opponents of the decided entries of the
\* history, wins is the number of won entries and losses the number of lost
\* ones; pending entries count for nothing.
C26_HistoryAgrees ==
    \A t \in Range(teams) :
        /\ opponents_played[t] = EntriesWith(t, "True") \cup EntriesWith(t, "False")
        /\ wins[t] = CountResult(match_history[t], "True")
        /\ losses[t] = CountResult(match_history[t], "False")

\* a won entry, a lost entry and a pending entry against a team not played
C26_Witness ==
    \E t \in Range(teams) :
        /\ wins[t] = 1 /\ losses[t] = 1 /\ Len(match_history[t]) = 3
        /\ EntriesWith(t, "None") # {}
        /\ EntriesWith(t, "None") \cap opponents_played[t] = {}

\* C27: whatever results have been applied to a team, exactly one of active,
\* qualified and eliminated holds for it.
C27_ExactlyOneStatus ==
    \A t \in Range(teams) :
        /\ IsActive(Stage, t) \/ IsQualified(Stage, t) \/ IsEliminated(Stage, t)
        /\ ~(IsActive(Stage, t) /\ IsQualified(Stage, t))
        /\ ~(IsActive(Stage, t) /\ IsEliminated(Stage, t))
        /\ ~(IsQualified(Stage, t) /\ IsEliminated(Stage, t))

(***************************************************************************)
(* Claims about paths and pending matches (SpecDrawn)                      *)
(***************************************************************************)
IsFindPath == ret.op = "_find_path_to_target_group"

\* C23: _find_path_to_target_group returns a path exactly when the team is
\* at the target record, or is active and the target, below 3 wins and 3
\* losses, is one more win or one more loss away; every target that needs two
\* or more results, or fewer wins or losses than the team has, is not reachable.
C23_PathExactlyOneStep ==
    IsFindPath =>
        /\ ret.result.found
           <=> \/ Record(Stage, ret.team) = <<ret.target_w, ret.target_l>>
               \/ /\ Active(ret.team)
                  /\ ret.target_w < 3 /\ ret.target_l < 3
                  /\ OneResultFrom(ret.team, <<ret.target_w, ret.target_l>>)
        /\ ret.result.found =>
              /\ ret.result.possible
              /\ ret.result.wins_needed = ret.target_w - wins[ret.team]
              /\ ret.result.losses_needed = ret.target_l - losses[ret.team]
              /\ ret.result.wins_needed + ret.result.losses_needed \in {0, 1}

\* a team at 1-1 that is drawn is asked about 2-1: one win is needed
C23_Witness ==
    /\ IsFindPath /\ Record(Stage, ret.team) = <<1, 1>>
    /\ ret.target_w = 2 /\ ret.target_l = 1
    /\ ret.result.found /\ ret.result.wins_needed = 1
    /\ ret.result.pending_match.present

IsPending == ret.op = "_identify_pending_matches"

\* the pairs of teams whose last entries are pending matches against each other
DrawnPairs ==
    {{x, y} : x, y \in {u \in Range(teams) : Drawn(u)}}
    \cap {p \in SUBSET Range(teams) :
             /\ Cardinality(p) = 2
             /\ \A x \in p : Drawn(x) /\ DrawnAgainst(x) \in p \ {x}}

\* C24: _identify_pending_matches returns one entry for each pair of teams
\* whose last history entries are pending matches against each other, and no
\* other entry: no pair twice, and no pair that is not drawn on both sides.
C24_PendingExactly ==
    IsPending =>
        /\ {{ret.result[i].team1, ret.result[i].team2} : i \in 1..Len(ret.result)}
              = DrawnPairs
        /\ Len(ret.result) = Cardinality(DrawnPairs)

(***************************************************************************)
(* Claims about simulated groups (SpecAnalysis)                            *)
(***************************************************************************)
IsSimulate == ret.op = "_simulate_group_with_results"

\* the listed matches team t wins, and those it loses
ListedWins(t) ==
    {i \in 1..Len(ret.match_results) :
        \/ ret.match_results[i][2] = "team1_win" /\ ret.match_results[i][1][1] = t
        \/ ret.match_results[i][2] = "team2_win" /\ ret.match_results[i][1][2] = t}

ListedLosses(t) ==
    {i \in 1..Len(ret.match_results) :
        \/ ret.match_results[i][2] = "team1_win" /\ ret.match_results[i][1][2] = t
        \/ ret.match_results[i][2] = "team2_win" /\ ret.match_results[i][1][1] = t}

\* the record of team t once every listed result has been applied
RecordAfter(t) ==
    <<wins[t] + Cardinality(ListedWins(t)), losses[t] + Cardinality(ListedLosses(t))>>

\* C25: _simulate_group_with_results returns exactly the teams that are
\* active at the target record once every listed result has been applied
\* once, a win to the winner and a loss to the loser, the other teams keeping
\* their records: teams at the target and untouched stay, teams moved to it
\* come in, teams moved away go out.
C25_SimulatedGroup ==
    IsSimulate =>
        ret.result
          = Filter(teams, {t \in Range(teams) :
                              /\ RecordAfter(t) = ret.target
                              /\ RecordAfter(t)[1] < 3 /\ RecordAfter(t)[2] < 3})

\* one team stays in the target group, one comes in and one goes out
C25_Witness ==
    /\ IsSimulate
    /\ \E x, y, z \in Range(teams) :
          /\ Record(Stage, x) = ret.target /\ x \in Range(ret.result)
          /\ Record(Stage, y) # ret.target /\ y \in Range(ret.result)
          /\ Record(Stage, z) = ret.target /\ z \notin Range(ret.result)

(***************************************************************************)
(* Claims about the target group of the scenarios (SpecCross)              *)
(***************************************************************************)
\* C28: in every scenario of a call that found a target group, the group the
\* direct probability is computed on holds both teams asked about: both
\* prerequisite results were applied, also for a team that needs one more
\* result and has no pending match.
C28_BothInBucket ==
    (CrossAnswered /\ ret.team1_name # ret.team2_name) =>
        \A i \in 1..Len(ret.result.scenarios) :
            {ret.team1_name, ret.team2_name}
               \subseteq Range(ret.result.scenarios[i].pairing_stats.teams)

\* the candidate records both teams reach in at most one step, not both
\* being there already
ReachedByBoth ==
    {rec \in {<<1, 1>>, <<2, 1>>, <<1, 2>>, <<2, 2>>} :
        /\ Reaches(ret.team1_name, rec) /\ Reaches(ret.team2_name, rec)
        /\ ~(Record(Stage, ret.team1_name) = rec /\ Record(Stage, ret.team2_name) = rec)}

\* the first record of S in the order (1,1), (2,1), (1,2), (2,2)
FirstRecord(S) ==
    IF <<1, 1>> \in S THEN <<1, 1>>
    ELSE IF <<2, 1>> \in S THEN <<2, 1>>
    ELSE IF <<1, 2>> \in S THEN <<1, 2>> ELSE <<2, 2>>

\* the call analyses the record rec and no other
AnalysesOnly(rec) ==
    /\ Len(ret.result.prerequisites) = 2
    /\ \A i \in 1..2 : ret.result.prerequisites[i].needs.target = rec
    /\ \A i \in 1..Len(ret.result.impact_matches) :
          \/ OneResultFrom(ret.result.impact_matches[i].team1, rec)
          \/ OneResultFrom(ret.result.impact_matches[i].team2, rec)
    /\ ret.win_probabilities.given =>
          Len(ret.result.scenarios) = Pow2(Len(ret.result.impact_matches))

\* C29 as stated: the record analysed is the first of (1,1), (2,1), (1,2),
\* (2,2) that both teams reach in at most one step and where not both are
\* already, whatever the call's other arguments are.
C29_FirstReachedByBoth ==
    (CrossAnswered /\ ReachedByBoth # {}) => AnalysesOnly(FirstRecord(ReachedByBoth))

\* C29: the scenario enumerator analyses one target record per call: the
\* first of (1,1), (2,1), (1,2), (2,2) that both teams reach in at most one
\* step, where not both are already, and that is not the first team's own
\* record when the call says to skip it; records further down the list that
\* both also reach add no prerequisite, impact match or scenario.
C29_FirstTarget ==
    (CrossAnswered /\ CommonTargets # {}) => AnalysesOnly(FirstRecord(CommonTargets))

\* two teams at 1-1: 2-1 is analysed, and 1-2, which both reach by a loss, is not
C29_Witness ==
    /\ CrossAnswered /\ ret.win_probabilities.given
    /\ Record(Stage, ret.team1_name) = <<1, 1>>
    /\ Record(Stage, ret.team2_name) = <<1, 1>>
    /\ {<<2, 1>>, <<1, 2>>} \subseteq CommonTargets
    /\ TargetOf = <<2, 1>>
    /\ ret.result.scenarios # <<>>

(***************************************************************************)
(* Claims about teams drawn against each other (Spec)                      *)
(***************************************************************************)
\* the two teams are drawn against each other: the last entry of each is a
\* pending match against the other
DrawnTogether(x, y) ==
    /\ Drawn(x) /\ DrawnAgainst(x) = y
    /\ Drawn(y) /\ DrawnAgainst(y) = x

\* C30: for two active teams of one record that have not played and are
\* drawn against each other, calculate_matchup_probability reports
\* probability 1, however many other teams share the record.
C30_DrawnTogetherIsCertain ==
    (/\ Answered /\ ret.team1_name # ret.team2_name
     /\ Active(ret.team1_name) /\ Active(ret.team2_name)
     /\ Record(Stage, ret.team1_name) = Record(Stage, ret.team2_name)
     /\ ret.team2_name \notin opponents_played[ret.team1_name]
     /\ ret.team1_name \notin opponents_played[ret.team2_name]
     /\ DrawnTogether(ret.team1_name, ret.team2_name))
    => ret.result.probability = One

====
